---------------------------- MODULE Spec2Model ----------------------------
(***************************************************************************)
(* A model of the terminal core of CYD_terminal: the incoming byte path    *)
(* (terminalUpdate: escape collector, UTF-8 decoder, putChar), the          *)
(* circular scrollback buffer with its totalLines counter, the cursor, the *)
(* scroll offset and the viewport arithmetic of terminalRedraw,            *)
(* ensureCursorVisible, terminalScroll and terminalScrollForKeyboard.      *)
(*                                                                         *)
(* The grid is scaled down (the firmware uses 53 columns, 27 screen rows,  *)
(* a 100-row buffer and 5 of 7 rows above the keyboard); the scaled sizes  *)
(* keep the order of the firmware's sizes (5 < 7 < 27 < 100).  Pixel       *)
(* drawing (tft.*, drawUnicodeChar) changes no state of the core and is    *)
(* left out; what terminalRedraw reads is given by the operators           *)
(* FirstLineToShow, DrawnRows and CursorRowDrawn.  The keyboard's input    *)
(* buffer and command history (display.h) and the logger's session files   *)
(* and UTF-8 encoder (sdcard.h) are modelled beside it.                    *)
(***************************************************************************)
EXTENDS Integers, Sequences, FiniteSets, TLC

(* ------------------------------ sizes --------------------------------- *)

\* config.h TERMINAL_COLS (53), scaled.
TERMINAL_COLS == 2
\* config.h TERMINAL_ROWS (27), scaled.
TERMINAL_ROWS == 4
\* config.h TERMINAL_BUFFER_ROWS (100), scaled.
TERMINAL_BUFFER_ROWS == 6
\* (KEYBOARD_Y_POS - TERMINAL_START_Y) / 8 = (80 - 22) / 8 = 7, scaled.
KeyboardAreaRows == 3
\* The literal 5 of "show only 5 rows when keyboard is visible", scaled.
KeyboardShownRows == 1
\* (SCREEN_HEIGHT - TERMINAL_START_Y) / 8 = (240 - 22) / 8 = 27, which is
\* TERMINAL_ROWS in the firmware.
ScreenAreaRows == TERMINAL_ROWS
\* The literal 2 of terminalScrollForKeyboard (cursor on the 3rd row).
KeyboardTargetRow == 2
\* sizeof(escBuffer)
ESC_BUFFER_SIZE == 32

\* display.h MAX_HISTORY (10), scaled.
MAX_HISTORY == 3
\* sdCleanOldSessions' MAX_SESSIONS (50 on the device).
MAX_SESSIONS == 3
\* Codepoints taken on each side of every boundary of the encoder.
CodepointSpread == 3
\* display.h INPUT_BUFFER_SIZE (256), scaled.
INPUT_BUFFER_SIZE == 2

\* How far totalLines may grow before the environment stops sending line
\* feeds (totalLines itself is unbounded in the firmware).
MaxExtraLines == 2
\* The 5 of "BUFFER_ROWS + 5 lines", scaled.
ExtraLines == 2
MaxTotalLines == TERMINAL_BUFFER_ROWS + MaxExtraLines
\* Parameter bytes (digits and ';') the environment sends after "ESC [" in
\* the specifications with short sequences.
MaxParamBytes == 2
\* Lines of text the environment writes in the specification of editing.
MaxEditLines == 2
\* The length of the byte strings received in the specification of streams.
MaxStreamLen == 4
\* Parameter bytes the environment sends after "ESC [" before an 'm'.
MaxSgrBytes == 4

(* ------------------------------ bytes --------------------------------- *)

BS  == 8
LF  == 10
CR  == 13
ESC == 27
SPACE == 32

\* ASCII codes used by the escape interpreter.
Ch0 == 48
Ch1 == 49
Ch2 == 50
Ch3 == 51
Ch9 == 57
ChSemi == 59
ChLParen == 40
ChLBracket == 91
ChA == 65
ChB == 66
ChC == 67
ChD == 68
ChH == 72
ChJ == 74
ChK == 75
ChZ == 90
Chf == 102
Chm == 109
Cha == 97
Chz == 122

IsLetter(b) == (b >= ChA /\ b <= ChZ) \/ (b >= Cha /\ b <= Chz)
IsDigit(b) == b >= Ch0 /\ b <= Ch9

(* --------------------------- C arithmetic ------------------------------ *)

\* int is 32 bits wide on the target.
INT32_MAX == 32767 * 65536 + 65535
INT32_MIN == -INT32_MAX - 1

\* The two 16-bit halves of the two's-complement pattern of an int.
HiHalf(x) == IF x >= 0 THEN x \div 65536 ELSE (x - INT32_MIN) \div 65536 + 32768
LoHalf(x) == IF x >= 0 THEN x % 65536 ELSE (x - INT32_MIN) % 65536
FromHalves(hi, lo) ==
  IF hi >= 32768 THEN (hi - 65536) * 65536 + lo ELSE hi * 65536 + lo

\* Signed overflow is undefined in C++.  The results of an overflowing
\* computation are kept as a set; the firmware's build (GCC for the ESP32,
\* plain non-trapping add and multiply, no range known to the optimiser at
\* these statements) leaves the two's-complement wrap in the register.
Overflowed(wrapped) == {wrapped}

\* a + b on ints: the set of results.
IntAdd(a, b) ==
  IF b > 0 /\ a > INT32_MAX - b
  THEN Overflowed((a + INT32_MIN) + (b + INT32_MIN))
  ELSE IF b < 0 /\ a < INT32_MIN - b
  THEN Overflowed((a - INT32_MIN) + (b - INT32_MIN))
  ELSE {a + b}

\* a - b on ints: the set of results.
IntSub(a, b) ==
  IF b > 0 /\ a < INT32_MIN + b
  THEN Overflowed((a - INT32_MIN) - (b + INT32_MIN))
  ELSE IF b < 0 /\ a > INT32_MAX + b
  THEN Overflowed((a + INT32_MIN) - (b - INT32_MIN))
  ELSE {a - b}

\* num * 10 + d on ints, d a decimal digit: the set of results.
IntMul10Add(num, d) ==
  LET fits == IF num >= 0
              THEN num <= (INT32_MAX - d) \div 10
              ELSE num > INT32_MIN \div 10
                   \/ (num = INT32_MIN \div 10 /\ d >= (INT32_MIN % 10))
      lo1 == LoHalf(num) * 10 + d
      hi1 == (HiHalf(num) * 10 + lo1 \div 65536) % 65536
  IN  IF fits THEN {num * 10 + d}
      ELSE Overflowed(FromHalves(hi1, lo1 % 65536))

\* C's % on ints (truncating division), b > 0.
CRem(a, b) == IF a >= 0 THEN a % b ELSE -((-a) % b)

Min(a, b) == IF a < b THEN a ELSE b
Max(a, b) == IF a > b THEN a ELSE b

\* Arduino's constrain(x, lo, hi).
Constrain(x, lo, hi) == IF x < lo THEN lo ELSE IF x > hi THEN hi ELSE x

(* ------------------------------ state --------------------------------- *)

VARIABLES
  screenBuffer,    \* [0..BUFFER_ROWS-1 -> [0..COLS-1 -> codepoint]]
  cursorX,
  cursorY,
  scrollOffset,
  totalLines,
  fgColor,
  bgColor,
  escBuffer,       \* the bytes collected after ESC; escIndex is its length
  inEscSequence,
  utf8Decoder,     \* [codepoint, bytesNeeded, bytesReceived]
  keyboardVisible, \* main's flag, read by the terminal through extern
  last,            \* the last step: operation, argument, what it did
  written,         \* the lines written by WriteLine, oldest first
  commandHistory,  \* display.h: [0..MAX_HISTORY-1 -> String]
  historyCount,
  inputBuffer,     \* display.h: the bytes of char inputBuffer[]
  inputBufferPos,
  currentHistoryIndex,
  savedNewCommand,
  nav,             \* the commands pushed, the Up and Down presses since
                   \* the last Editing state, the edit the first Up found
  stream,          \* the bytes received since Init and what they delivered
  logFiles,        \* sdcard.h: the names NNN of the files session_NNN.txt
                   \* in /LOGS
  isRecording,
  sessionNumber,
  currentStatus,   \* sdcard.h: SDStatus, by the enumerator's name
  encoded          \* a codepoint, the bytes the logger's encoder made of it
                   \* and how many of them the decoder has been given

\* The keyboard's state in display.h, with the record of the keys pressed.
kbdVars == <<commandHistory, historyCount, inputBuffer, inputBufferPos,
             currentHistoryIndex, savedNewCommand, nav>>

\* The logger's state in sdcard.h, with the encoder's output.
logVars == <<logFiles, isRecording, sessionNumber, currentStatus, encoded>>

vars == <<screenBuffer, cursorX, cursorY, scrollOffset, totalLines, fgColor,
          bgColor, escBuffer, inEscSequence, utf8Decoder, keyboardVisible,
          last, written, commandHistory, historyCount, inputBuffer,
          inputBufferPos, currentHistoryIndex, savedNewCommand, nav, stream,
          logFiles, isRecording, sessionNumber, currentStatus, encoded>>

Rows == 0 .. TERMINAL_BUFFER_ROWS - 1
Cols == 0 .. TERMINAL_COLS - 1

BlankRow == [x \in Cols |-> SPACE]
BlankBuffer == [y \in Rows |-> BlankRow]

\* The terminal's own state as one value, so that putChar can be applied
\* several times within one operation.
Term == [buf |-> screenBuffer, cx |-> cursorX, cy |-> cursorY,
         so |-> scrollOffset, tl |-> totalLines]

SetTerm(t) ==
  /\ screenBuffer' = t.buf
  /\ cursorX' = t.cx
  /\ cursorY' = t.cy
  /\ scrollOffset' = t.so
  /\ totalLines' = t.tl

InGrid(y, x) == y \in Rows /\ x \in Cols

\* screenBuffer[y][x] = v.  A store outside the array does not land in the
\* grid; no specification below reaches one.
SetCell(buf, y, x, v) ==
  IF InGrid(y, x) THEN [buf EXCEPT ![y][x] = v] ELSE buf

\* for (x = from; x < TERMINAL_COLS; x++) screenBuffer[y][x] = ' ';
ClearRowFrom(buf, y, from) ==
  IF y \in Rows
  THEN [buf EXCEPT ![y] = [x \in Cols |-> IF x >= from THEN SPACE ELSE @[x]]]
  ELSE buf

(* ----------------------------- viewport -------------------------------- *)

\* terminalRedraw's visibleRows.
VisibleRows(kv) ==
  LET area == IF kv THEN KeyboardAreaRows ELSE ScreenAreaRows
      capped == IF area > TERMINAL_ROWS THEN TERMINAL_ROWS ELSE area
  IN  IF kv /\ capped > KeyboardShownRows THEN KeyboardShownRows ELSE capped

\* terminalRedraw's firstLineToShow.
FirstLineToShow(tl, rows, so) ==
  LET f == tl - rows - so IN IF f < 0 THEN 0 ELSE f

\* terminalRedraw's loop drawing every line the first row onwards, the
\* overwritten ones included.
DrawnRowsReadsOld(tl, so, kv) ==
  LET rows == VisibleRows(kv)
      first == FirstLineToShow(tl, rows, so)
  IN  {[y |-> y, line |-> first + y,
        slot |-> IF tl <= TERMINAL_BUFFER_ROWS THEN first + y
                 ELSE CRem(first + y, TERMINAL_BUFFER_ROWS)] :
         y \in {z \in 0 .. rows - 1 : first + z < tl}}

\* terminalRedraw's loop over the visible rows: the rows it draws, each with
\* the absolute line number it stands for and the buffer slot it reads.
DrawnRows(tl, so, kv) ==
  LET rows == VisibleRows(kv)
      first == FirstLineToShow(tl, rows, so)
      Drawn(y) == /\ first + y < tl
                  /\ tl > TERMINAL_BUFFER_ROWS
                       => first + y >= tl - TERMINAL_BUFFER_ROWS
  IN  {[y |-> y, line |-> first + y,
        slot |-> IF tl <= TERMINAL_BUFFER_ROWS THEN first + y
                 ELSE CRem(first + y, TERMINAL_BUFFER_ROWS)] :
         y \in {z \in 0 .. rows - 1 : Drawn(z)}}

\* The cursor's absolute line number as the firmware computes it.
CursorLineNumber(tl, cy) ==
  IF tl <= TERMINAL_BUFFER_ROWS
  THEN cy
  ELSE LET newestLinePos == CRem(tl - 1, TERMINAL_BUFFER_ROWS)
           offset == CRem(newestLinePos - cy + TERMINAL_BUFFER_ROWS,
                          TERMINAL_BUFFER_ROWS)
       IN  tl - 1 - offset

\* terminalRedraw with the keyboard shown: the cursor's line, drawn on the
\* screen row after the visible ones when it is the line after them and the
\* row fits above the keyboard.
CursorRowDrawn(tl, cy, so, kv) ==
  LET rows == VisibleRows(kv)
      first == FirstLineToShow(tl, rows, so)
      cursorLineNumber == CursorLineNumber(tl, cy)
  IN  IF /\ kv
         /\ cursorLineNumber = first + rows
         /\ cursorLineNumber <= tl - 1
         /\ rows + 1 <= KeyboardAreaRows
      THEN {[y |-> rows, line |-> cursorLineNumber,
             slot |-> IF tl <= TERMINAL_BUFFER_ROWS THEN cursorLineNumber
                      ELSE CRem(cursorLineNumber, TERMINAL_BUFFER_ROWS)]}
      ELSE {}

\* terminalRedraw: every row of the buffer it reads.
RedrawReads(tl, cy, so, kv) ==
  DrawnRows(tl, so, kv) \union CursorRowDrawn(tl, cy, so, kv)

\* ensureCursorVisible doing nothing while the keyboard is hidden.
EnsureCursorVisibleKeepsOffset(t, kv) ==
  IF ~kv
  THEN t
  ELSE LET visibleRows == IF KeyboardAreaRows > KeyboardShownRows
                          THEN KeyboardShownRows ELSE KeyboardAreaRows
           cursorAbsoluteLine == CursorLineNumber(t.tl, t.cy)
           target == cursorAbsoluteLine - visibleRows
           targetFirstLine == IF target < 0 THEN 0 ELSE target
           raw == t.tl - visibleRows - targetFirstLine
           nonneg == IF raw < 0 THEN 0 ELSE raw
           m == t.tl - visibleRows
           maxScroll == IF m < 0 THEN 0 ELSE m
       IN  [t EXCEPT !.so = IF nonneg > maxScroll THEN maxScroll ELSE nonneg]

\* ensureCursorVisible aiming at the last of the visible rows.
EnsureCursorVisibleLastRow(t, kv) ==
  IF ~kv
  THEN [t EXCEPT !.so = 0]
  ELSE LET visibleRows == IF KeyboardAreaRows > KeyboardShownRows
                          THEN KeyboardShownRows ELSE KeyboardAreaRows
           cursorAbsoluteLine == CursorLineNumber(t.tl, t.cy)
           targetCursorScreenPos == visibleRows - 1
           target == cursorAbsoluteLine - targetCursorScreenPos
           targetFirstLine == IF target < 0 THEN 0 ELSE target
           raw == t.tl - visibleRows - targetFirstLine
           nonneg == IF raw < 0 THEN 0 ELSE raw
           m == t.tl - visibleRows
           maxScroll == IF m < 0 THEN 0 ELSE m
       IN  [t EXCEPT !.so = IF nonneg > maxScroll THEN maxScroll ELSE nonneg]

\* ensureCursorVisible: the scroll offset it leaves.
EnsureCursorVisible(t, kv) ==
  IF ~kv
  THEN [t EXCEPT !.so = 0]
  ELSE LET visibleRows == IF KeyboardAreaRows > KeyboardShownRows
                          THEN KeyboardShownRows ELSE KeyboardAreaRows
           cursorAbsoluteLine == CursorLineNumber(t.tl, t.cy)
           targetCursorScreenPos == visibleRows
           target == cursorAbsoluteLine - targetCursorScreenPos
           targetFirstLine == IF target < 0 THEN 0 ELSE target
           raw == t.tl - visibleRows - targetFirstLine
           nonneg == IF raw < 0 THEN 0 ELSE raw
           m == t.tl - visibleRows
           maxScroll == IF m < 0 THEN 0 ELSE m
       IN  [t EXCEPT !.so = IF nonneg > maxScroll THEN maxScroll ELSE nonneg]

(* ------------------------------ putChar -------------------------------- *)

\* scrollUp: blank the slot totalLines % BUFFER_ROWS, put the cursor there,
\* count one more line.
\* scrollUp moving every row one slot up and blanking the last slot.
ScrollUpShiftsRows(t) ==
  [t EXCEPT !.buf = [y \in 0 .. TERMINAL_BUFFER_ROWS - 1 |->
                       IF y = TERMINAL_BUFFER_ROWS - 1
                       THEN [x \in 0 .. TERMINAL_COLS - 1 |-> 32]
                       ELSE t.buf[y + 1]],
            !.cy = TERMINAL_BUFFER_ROWS - 1,
            !.tl = t.tl + 1]

ScrollUp(t) ==
  LET nextLine == CRem(t.tl, TERMINAL_BUFFER_ROWS)
  IN  [t EXCEPT !.buf = ClearRowFrom(t.buf, nextLine, 0),
                !.cy = nextLine,
                !.tl = t.tl + 1]

\* putChar's '\n' branch setting totalLines from the cursor's row whether
\* or not the row is a new one.
LineFeedCountsFromCursor(t, kv) ==
  LET cy1 == t.cy + 1
      buf1 == IF cy1 < TERMINAL_BUFFER_ROWS
              THEN ClearRowFrom(t.buf, cy1, 0) ELSE t.buf
      tl1 == IF t.tl < TERMINAL_BUFFER_ROWS THEN cy1 + 1 ELSE t.tl
      t1 == [t EXCEPT !.cx = 0, !.cy = cy1, !.buf = buf1, !.tl = tl1]
  IN  IF cy1 >= TERMINAL_BUFFER_ROWS
      THEN EnsureCursorVisible(
             ScrollUp([t1 EXCEPT !.cy = TERMINAL_BUFFER_ROWS - 1]), kv)
      ELSE EnsureCursorVisible(t1, kv)

\* putChar, the '\n' branch.
LineFeed(t, kv) ==
  LET cy1 == t.cy + 1
      buf1 == IF cy1 < TERMINAL_BUFFER_ROWS
              THEN ClearRowFrom(t.buf, cy1, 0) ELSE t.buf
      tl1 == IF t.tl < TERMINAL_BUFFER_ROWS /\ cy1 >= t.tl
             THEN cy1 + 1 ELSE t.tl
      t1 == [t EXCEPT !.cx = 0, !.cy = cy1, !.buf = buf1, !.tl = tl1]
  IN  IF cy1 >= TERMINAL_BUFFER_ROWS
      THEN EnsureCursorVisible(
             ScrollUp([t1 EXCEPT !.cy = TERMINAL_BUFFER_ROWS - 1]), kv)
      ELSE EnsureCursorVisible(t1, kv)

\* putChar's column-overflow block leaving the scroll offset alone when the
\* buffer does not scroll.
WrapKeepsOffset(t, kv) ==
  LET cy1 == t.cy + 1
      buf1 == IF cy1 < TERMINAL_BUFFER_ROWS
              THEN ClearRowFrom(t.buf, cy1, 0) ELSE t.buf
      tl1 == IF t.tl < TERMINAL_BUFFER_ROWS /\ cy1 >= t.tl
             THEN cy1 + 1 ELSE t.tl
      t1 == [t EXCEPT !.cx = 0, !.cy = cy1, !.buf = buf1, !.tl = tl1]
  IN  IF cy1 >= TERMINAL_BUFFER_ROWS
      THEN EnsureCursorVisible(
             ScrollUp([t1 EXCEPT !.cy = TERMINAL_BUFFER_ROWS - 1]), kv)
      ELSE t1

\* putChar, the column-overflow block of the printable branch.
Wrap(t, kv) ==
  LET cy1 == t.cy + 1
      buf1 == IF cy1 < TERMINAL_BUFFER_ROWS
              THEN ClearRowFrom(t.buf, cy1, 0) ELSE t.buf
      tl1 == IF t.tl < TERMINAL_BUFFER_ROWS /\ cy1 >= t.tl
             THEN cy1 + 1 ELSE t.tl
      t1 == [t EXCEPT !.cx = 0, !.cy = cy1, !.buf = buf1, !.tl = tl1]
  IN  IF cy1 >= TERMINAL_BUFFER_ROWS
      THEN EnsureCursorVisible(
             ScrollUp([t1 EXCEPT !.cy = TERMINAL_BUFFER_ROWS - 1]), kv)
      ELSE EnsureCursorVisible(t1, kv)

\* putChar('\b') going back to the end of the previous row from column 0.
BackspaceAcrossLines(t) ==
  IF t.cx > 0
  THEN [t EXCEPT !.cx = t.cx - 1, !.buf = SetCell(t.buf, t.cy, t.cx - 1, SPACE)]
  ELSE IF t.cy > 0
  THEN [t EXCEPT !.cx = TERMINAL_COLS - 1, !.cy = t.cy - 1,
                 !.buf = SetCell(t.buf, t.cy - 1, TERMINAL_COLS - 1, SPACE)]
  ELSE t

\* putChar, the '\b' branch.
Backspace(t) ==
  IF t.cx > 0
  THEN [t EXCEPT !.cx = t.cx - 1, !.buf = SetCell(t.buf, t.cy, t.cx - 1, SPACE)]
  ELSE t

\* putChar's printable branch wrapping one column early.
PrintableWrapsEarly(t, cp, kv) ==
  LET t1 == [t EXCEPT !.buf = SetCell(t.buf, t.cy, t.cx, cp), !.cx = t.cx + 1]
  IN  IF t1.cx >= TERMINAL_COLS - 1 THEN Wrap(t1, kv) ELSE t1

\* putChar, the printable branch.
Printable(t, cp, kv) ==
  LET t1 == [t EXCEPT !.buf = SetCell(t.buf, t.cy, t.cx, cp), !.cx = t.cx + 1]
  IN  IF t1.cx >= TERMINAL_COLS THEN Wrap(t1, kv) ELSE t1

PutChar(t, cp, kv) ==
  IF cp = CR THEN [t EXCEPT !.cx = 0]
  ELSE IF cp = LF THEN LineFeed(t, kv)
  ELSE IF cp = BS THEN Backspace(t)
  ELSE IF cp >= 32 THEN Printable(t, cp, kv)
  ELSE t

\* terminalClear.
TerminalClear(t) ==
  [t EXCEPT !.buf = BlankBuffer, !.cx = 0, !.cy = 0, !.so = 0, !.tl = 0]

(* --------------------------- UTF-8 decoder ----------------------------- *)

\* utf8Init (the field state, which nothing else writes, is left out).
Utf8Init == [codepoint |-> 0, bytesNeeded |-> 0, bytesReceived |-> 0]

\* utf8Decode keeping its state on a byte that is no continuation byte.
Utf8DecodeKeepsState(d, byte) ==
  IF d.bytesNeeded = 0
  THEN IF byte < 128
       THEN [ok |-> TRUE, dec |-> [d EXCEPT !.codepoint = byte]]
       ELSE IF byte \div 32 = 6
       THEN [ok |-> FALSE,
             dec |-> [codepoint |-> byte % 32, bytesNeeded |-> 1,
                      bytesReceived |-> 0]]
       ELSE IF byte \div 16 = 14
       THEN [ok |-> FALSE,
             dec |-> [codepoint |-> byte % 16, bytesNeeded |-> 2,
                      bytesReceived |-> 0]]
       ELSE IF byte \div 8 = 30
       THEN [ok |-> FALSE,
             dec |-> [codepoint |-> byte % 8, bytesNeeded |-> 3,
                      bytesReceived |-> 0]]
       ELSE [ok |-> FALSE, dec |-> Utf8Init]
  ELSE IF byte \div 64 = 2
       THEN LET d1 == [d EXCEPT !.codepoint = d.codepoint * 64 + (byte % 64),
                                !.bytesReceived = d.bytesReceived + 1]
            IN  IF d1.bytesReceived >= d1.bytesNeeded
                THEN [ok |-> TRUE, dec |-> [d1 EXCEPT !.bytesNeeded = 0]]
                ELSE [ok |-> FALSE, dec |-> d1]
       ELSE [ok |-> FALSE, dec |-> d]

\* utf8Decode: the value returned (ok) and the decoder afterwards (dec).
\* (byte & 0x80) == 0 is byte < 128, (byte & 0xE0) == 0xC0 is
\* byte \div 32 = 6, and so on; (cp << 6) | (byte & 0x3F) is
\* cp * 64 + byte % 64, the low six bits of cp * 64 being clear.
Utf8Decode(d, byte) ==
  IF d.bytesNeeded = 0
  THEN IF byte < 128
       THEN [ok |-> TRUE, dec |-> [d EXCEPT !.codepoint = byte]]
       ELSE IF byte \div 32 = 6
       THEN [ok |-> FALSE,
             dec |-> [codepoint |-> byte % 32, bytesNeeded |-> 1,
                      bytesReceived |-> 0]]
       ELSE IF byte \div 16 = 14
       THEN [ok |-> FALSE,
             dec |-> [codepoint |-> byte % 16, bytesNeeded |-> 2,
                      bytesReceived |-> 0]]
       ELSE IF byte \div 8 = 30
       THEN [ok |-> FALSE,
             dec |-> [codepoint |-> byte % 8, bytesNeeded |-> 3,
                      bytesReceived |-> 0]]
       ELSE [ok |-> FALSE, dec |-> Utf8Init]
  ELSE IF byte \div 64 = 2
       THEN LET d1 == [d EXCEPT !.codepoint = d.codepoint * 64 + (byte % 64),
                                !.bytesReceived = d.bytesReceived + 1]
            IN  IF d1.bytesReceived >= d1.bytesNeeded
                THEN [ok |-> TRUE, dec |-> [d1 EXCEPT !.bytesNeeded = 0]]
                ELSE [ok |-> FALSE, dec |-> d1]
       ELSE [ok |-> FALSE, dec |-> Utf8Init]

(* ------------------------- escape sequences ---------------------------- *)

\* The 8-entry foreground palette of the 'm' command (30..37).
Palette(n) ==
  CASE n = 30 -> "TFT_BLACK"
    [] n = 31 -> "TFT_RED"
    [] n = 32 -> "TFT_GREEN"
    [] n = 33 -> "TFT_YELLOW"
    [] n = 34 -> "TFT_BLUE"
    [] n = 35 -> "TFT_MAGENTA"
    [] n = 36 -> "TFT_CYAN"
    [] OTHER  -> "TFT_WHITE"

\* One pass of the parameter loop over the byte c, from the parse state
\* ps = [params, num, hasNum]: the set of parse states after it.
ParseByte(ps, c) ==
  IF IsDigit(c)
  THEN {[ps EXCEPT !.num = n, !.hasNum = TRUE] : n \in IntMul10Add(ps.num, c - Ch0)}
  ELSE IF c = ChSemi
  THEN {[params |-> IF ps.hasNum /\ Len(ps.params) < 4
                    THEN Append(ps.params, ps.num) ELSE ps.params,
         num |-> 0, hasNum |-> FALSE]}
  ELSE {ps}

\* The parameter loop from index i (of escBuffer[1 .. escIndex - 2], here
\* buf[2 .. Len(buf) - 1]) on: the set of parse states when it ends.
RECURSIVE ParseFrom(_, _, _)
ParseFrom(buf, i, pss) ==
  IF i > Len(buf) - 1
  THEN pss
  ELSE ParseFrom(buf, i + 1, UNION {ParseByte(ps, buf[i]) : ps \in pss})

\* The parameters processEscSequence extracts: sequences of at most 4
\* ints, paramCount being the length.
ParseParams(buf) ==
  {IF ps.hasNum /\ Len(ps.params) < 4 THEN Append(ps.params, ps.num)
   ELSE ps.params :
     ps \in ParseFrom(buf, 2, {[params |-> <<>>, num |-> 0, hasNum |-> FALSE]})}

\* params[k] of int params[4] = {0, 0, 0, 0}, k from 0.
Param(params, k) == IF k < Len(params) THEN params[k + 1] ELSE 0

\* params[0], replaced by 1 when it is 0.
Count(params) == IF Param(params, 0) = 0 THEN 1 ELSE Param(params, 0)

\* case 'H', 'f'.
CursorPosition(t, params) ==
  LET y == IF Len(params) > 0 /\ Param(params, 0) > 0
           THEN Param(params, 0) - 1 ELSE 0
      x == IF Len(params) > 1 /\ Param(params, 1) > 0
           THEN Param(params, 1) - 1 ELSE 0
  IN  [t EXCEPT !.cx = Constrain(x, 0, TERMINAL_COLS - 1),
                !.cy = Constrain(y, 0, TERMINAL_ROWS - 1)]

\* case 'J' clearing whatever the parameter.
EraseDisplayAnyMode(t, params) == TerminalClear(t)

\* case 'J'.
EraseDisplay(t, params) ==
  IF Param(params, 0) = 2 THEN TerminalClear(t) ELSE t

\* case 'K' blanking the whole row.
EraseLineWhole(t) == [t EXCEPT !.buf = ClearRowFrom(t.buf, t.cy, 0)]

\* case 'K'.
EraseLine(t) == [t EXCEPT !.buf = ClearRowFrom(t.buf, t.cy, t.cx)]

\* case 'A'.
CursorUp(t, params) ==
  {[t EXCEPT !.cy = IF y < 0 THEN 0 ELSE y] : y \in IntSub(t.cy, Count(params))}

\* case 'B'.
CursorDown(t, params) ==
  {[t EXCEPT !.cy = IF y >= TERMINAL_ROWS THEN TERMINAL_ROWS - 1 ELSE y] :
     y \in IntAdd(t.cy, Count(params))}

\* case 'C'.
CursorForward(t, params) ==
  {[t EXCEPT !.cx = IF x >= TERMINAL_COLS THEN TERMINAL_COLS - 1 ELSE x] :
     x \in IntAdd(t.cx, Count(params))}

\* case 'D'.
CursorBack(t, params) ==
  {[t EXCEPT !.cx = IF x < 0 THEN 0 ELSE x] : x \in IntSub(t.cx, Count(params))}

\* case 'm', the loop over the parameters from index i on.
RECURSIVE Foreground(_, _, _)
Foreground(fg, params, i) ==
  IF i > Len(params) THEN fg
  ELSE Foreground(IF params[i] >= 30 /\ params[i] <= 37
                  THEN Palette(params[i]) ELSE fg, params, i + 1)

\* case 'm' resetting only when there is no parameter.
GraphicsModeBareOnly(fg, bg, params) ==
  IF Len(params) = 0
  THEN <<"TFT_GREEN", "TFT_BLACK">>
  ELSE <<Foreground(fg, params, 1), bg>>

\* case 'm': the colours <<fg, bg>> afterwards.
GraphicsMode(fg, bg, params) ==
  IF Len(params) = 0 \/ Param(params, 0) = 0
  THEN <<"TFT_GREEN", "TFT_BLACK">>
  ELSE <<Foreground(fg, params, 1), bg>>

\* The switch on the command letter, for one parameter list.
Command(t, fg, bg, cmd, params) ==
  IF cmd = ChH \/ cmd = Chf
  THEN {[t |-> CursorPosition(t, params), fg |-> fg, bg |-> bg]}
  ELSE IF cmd = ChJ
  THEN {[t |-> EraseDisplay(t, params), fg |-> fg, bg |-> bg]}
  ELSE IF cmd = ChK
  THEN {[t |-> EraseLine(t), fg |-> fg, bg |-> bg]}
  ELSE IF cmd = Chm
  THEN {[t |-> t, fg |-> GraphicsMode(fg, bg, params)[1],
         bg |-> GraphicsMode(fg, bg, params)[2]]}
  ELSE IF cmd = ChA
  THEN {[t |-> u, fg |-> fg, bg |-> bg] : u \in CursorUp(t, params)}
  ELSE IF cmd = ChB
  THEN {[t |-> u, fg |-> fg, bg |-> bg] : u \in CursorDown(t, params)}
  ELSE IF cmd = ChC
  THEN {[t |-> u, fg |-> fg, bg |-> bg] : u \in CursorForward(t, params)}
  ELSE IF cmd = ChD
  THEN {[t |-> u, fg |-> fg, bg |-> bg] : u \in CursorBack(t, params)}
  ELSE {[t |-> t, fg |-> fg, bg |-> bg]}

\* processEscSequence without the test for '['.
ProcessAnyIntroducer(t, fg, bg, buf) ==
  IF Len(buf) >= 2
  THEN UNION {Command(t, fg, bg, buf[Len(buf)], params) :
                params \in ParseParams(buf)}
  ELSE {[t |-> t, fg |-> fg, bg |-> bg]}

\* processEscSequence on the collected bytes buf (the terminator last):
\* the set of results [t, fg, bg].  The parser state is reset by the caller
\* below, as the function's last two statements do.
ProcessEscSequence(t, fg, bg, buf) ==
  IF Len(buf) >= 2 /\ buf[1] = ChLBracket
  THEN UNION {Command(t, fg, bg, buf[Len(buf)], params) :
                params \in ParseParams(buf)}
  ELSE {[t |-> t, fg |-> fg, bg |-> bg]}

(* ------------------------------ scrolling ------------------------------ *)

\* terminalScroll limiting the offset by totalLines alone.
TerminalScrollWholeHistory(t, delta) ==
  LET moved == t.so + delta
      maxScroll == t.tl
      nonneg == IF moved < 0 THEN 0 ELSE moved
  IN  [t EXCEPT !.so = IF nonneg > maxScroll THEN maxScroll ELSE nonneg]

\* terminalScroll with a positive delta moving toward the newest lines.
TerminalScrollTowardNewest(t, delta) ==
  LET moved == t.so - delta
      m == t.tl - TERMINAL_ROWS
      maxScroll == IF m < 0 THEN 0 ELSE m
      nonneg == IF moved < 0 THEN 0 ELSE moved
  IN  [t EXCEPT !.so = IF nonneg > maxScroll THEN maxScroll ELSE nonneg]

\* terminalScroll(delta).
TerminalScroll(t, delta) ==
  LET moved == t.so + delta
      m == t.tl - TERMINAL_ROWS
      maxScroll == IF m < 0 THEN 0 ELSE m
      nonneg == IF moved < 0 THEN 0 ELSE moved
  IN  [t EXCEPT !.so = IF nonneg > maxScroll THEN maxScroll ELSE nonneg]

\* terminalScrollForKeyboard(visible).
TerminalScrollForKeyboard(t, visible) ==
  IF visible
  THEN LET visibleRows == KeyboardAreaRows
           cursorAbsoluteLine == CursorLineNumber(t.tl, t.cy)
           target == cursorAbsoluteLine - KeyboardTargetRow
           targetFirstLine == IF target < 0 THEN 0 ELSE target
           raw == t.tl - visibleRows - targetFirstLine
           nonneg == IF raw < 0 THEN 0 ELSE raw
           m == t.tl - visibleRows
           maxScroll == IF m < 0 THEN 0 ELSE m
       IN  [t EXCEPT !.so = IF nonneg > maxScroll THEN maxScroll ELSE nonneg]
  ELSE [t EXCEPT !.so = 0]

(* ------------------------------ actions -------------------------------- *)

\* The record of a step: the operation and its argument, the codepoints it
\* handed to putChar, the branch of terminalUpdate it took (ev), the escape
\* sequence it completed (seq), and the foreground colour and the cursor's
\* row as they were before it.
Last(op, arg, put, ev, seq) ==
  [op |-> op, arg |-> arg, put |-> put, ev |-> ev, seq |-> seq,
   fg |-> fgColor,
   row |-> IF cursorY \in Rows THEN screenBuffer[cursorY] ELSE BlankRow]

\* The state when terminalInit returns (main's keyboardVisible is false),
\* with the statics of display.h as initialised.
Booted ==
  /\ screenBuffer = BlankBuffer
  /\ cursorX = 0
  /\ cursorY = 0
  /\ scrollOffset = 0
  /\ totalLines = 0
  /\ fgColor = "TFT_GREEN"
  /\ bgColor = "TFT_BLACK"
  /\ escBuffer = <<>>
  /\ inEscSequence = FALSE
  /\ utf8Decoder = Utf8Init
  /\ keyboardVisible = FALSE
  /\ last = Last("init", 0, <<>>, "none", <<>>)
  /\ written = <<>>
  /\ commandHistory = [i \in 0 .. MAX_HISTORY - 1 |-> <<>>]
  /\ historyCount = 0
  /\ inputBuffer = [i \in 0 .. INPUT_BUFFER_SIZE - 1 |-> 0]
  /\ inputBufferPos = 0
  /\ currentHistoryIndex = -1
  /\ savedNewCommand = <<>>
  /\ nav = [ups |-> 0, downs |-> 0, pushed |-> <<>>, edit |-> <<>>]
  /\ stream = [bytes |-> <<>>, put |-> <<>>]

\* No codepoint has been encoded.
NothingEncoded == [cp |-> 0, bytes |-> <<>>, fed |-> 0]

\* The state after setup() with an empty /LOGS directory on the card:
\* sdcard.h's statics as initialised.
Init ==
  /\ Booted
  /\ logFiles = {}
  /\ isRecording = FALSE
  /\ sessionNumber = 0
  /\ currentStatus = "SD_NOT_PRESENT"
  /\ encoded = NothingEncoded

\* What terminalUpdate does with the byte b is a set of outcomes, each the
\* terminal, the colours, the escape parser, the decoder, the codepoints
\* handed to putChar, the branch taken (ev) and the sequence completed
\* (seq).
RxSame ==
  [t |-> Term, fg |-> fgColor, bg |-> bgColor, esc |-> escBuffer,
   inEsc |-> inEscSequence, dec |-> utf8Decoder, put |-> <<>>, ev |-> "none",
   seq |-> <<>>]

\* RxEscape with the overflow test off by one (escIndex < sizeof(escBuffer)).
RxEscapeOffByOne(b) ==
  IF Len(escBuffer) < ESC_BUFFER_SIZE
  THEN IF IsLetter(b)
       THEN {[RxSame EXCEPT !.t = p.t, !.fg = p.fg, !.bg = p.bg,
                            !.esc = <<>>, !.inEsc = FALSE, !.ev = "escDone",
                            !.seq = Append(escBuffer, b)] :
               p \in ProcessEscSequence(Term, fgColor, bgColor,
                                        Append(escBuffer, b))}
       ELSE {[RxSame EXCEPT !.esc = Append(escBuffer, b), !.ev = "escCollect"]}
  ELSE {[RxSame EXCEPT !.esc = <<>>, !.inEsc = FALSE, !.ev = "escOverflow"]}

\* RxEscape with the overflow branch resetting escIndex only.
RxEscapeKeepsCollecting(b) ==
  IF Len(escBuffer) < ESC_BUFFER_SIZE - 1
  THEN IF IsLetter(b)
       THEN {[RxSame EXCEPT !.t = p.t, !.fg = p.fg, !.bg = p.bg,
                            !.esc = <<>>, !.inEsc = FALSE, !.ev = "escDone",
                            !.seq = Append(escBuffer, b)] :
               p \in ProcessEscSequence(Term, fgColor, bgColor,
                                        Append(escBuffer, b))}
       ELSE {[RxSame EXCEPT !.esc = Append(escBuffer, b), !.ev = "escCollect"]}
  ELSE {[RxSame EXCEPT !.esc = <<>>, !.ev = "escOverflow"]}

\* terminalUpdate, the branch if (inEscSequence).
RxEscape(b) ==
  IF Len(escBuffer) < ESC_BUFFER_SIZE - 1
  THEN IF IsLetter(b)
       THEN {[RxSame EXCEPT !.t = p.t, !.fg = p.fg, !.bg = p.bg,
                            !.esc = <<>>, !.inEsc = FALSE, !.ev = "escDone",
                            !.seq = Append(escBuffer, b)] :
               p \in ProcessEscSequence(Term, fgColor, bgColor,
                                        Append(escBuffer, b))}
       ELSE {[RxSame EXCEPT !.esc = Append(escBuffer, b), !.ev = "escCollect"]}
  ELSE {[RxSame EXCEPT !.esc = <<>>, !.inEsc = FALSE, !.ev = "escOverflow"]}

\* terminalUpdate handing every byte but ESC to putChar undecoded.
RxGroundBytewise(b) ==
  IF b = ESC
  THEN {[RxSame EXCEPT !.esc = <<>>, !.inEsc = TRUE, !.ev = "escStart"]}
  ELSE {[RxSame EXCEPT !.t = PutChar(Term, b, keyboardVisible),
                       !.put = <<b>>, !.ev = "decoded"]}

\* terminalUpdate, the branches else if (byte == 0x1B) and else.
\* terminalUpdate resetting the incoming decoder when ESC starts a sequence.
RxGroundEscResetsDecoder(b) ==
  IF b = ESC
  THEN {[RxSame EXCEPT !.esc = <<>>, !.inEsc = TRUE, !.ev = "escStart",
                       !.dec = [codepoint |-> 0, bytesNeeded |-> 0,
                                bytesReceived |-> 0]]}
  ELSE LET r == Utf8Decode(utf8Decoder, b)
       IN  IF r.ok
           THEN {[RxSame EXCEPT
                    !.t = PutChar(Term, r.dec.codepoint, keyboardVisible),
                    !.dec = [codepoint |-> 0, bytesNeeded |-> 0,
                             bytesReceived |-> 0],
                    !.put = <<r.dec.codepoint>>,
                    !.ev = "decoded"]}
           ELSE {[RxSame EXCEPT !.dec = r.dec,
                                !.ev = IF r.dec.bytesNeeded > 0
                                       THEN "pending" ELSE "rejected"]}

RxGround(b) ==
  IF b = ESC
  THEN {[RxSame EXCEPT !.esc = <<>>, !.inEsc = TRUE, !.ev = "escStart"]}
  ELSE LET r == Utf8Decode(utf8Decoder, b)
       IN  IF r.ok
           THEN {[RxSame EXCEPT
                    !.t = PutChar(Term, r.dec.codepoint, keyboardVisible),
                    !.dec = Utf8Init,
                    !.put = <<r.dec.codepoint>>,
                    !.ev = "decoded"]}
           ELSE {[RxSame EXCEPT !.dec = r.dec,
                                !.ev = IF r.dec.bytesNeeded > 0
                                       THEN "pending" ELSE "rejected"]}

Rx(b) == IF inEscSequence THEN RxEscape(b) ELSE RxGround(b)

\* terminalUpdate with the byte b read from the UART, for the outcome r.
UpdateWith(b, r) ==
  /\ SetTerm(r.t)
  /\ fgColor' = r.fg
  /\ bgColor' = r.bg
  /\ escBuffer' = r.esc
  /\ inEscSequence' = r.inEsc
  /\ utf8Decoder' = r.dec
  /\ last' = Last("rx", b, r.put, r.ev, r.seq)
  /\ UNCHANGED <<keyboardVisible, written>>
  /\ UNCHANGED kbdVars

\* terminalUpdate with the byte b read from the UART.
TerminalUpdate(b) ==
  \E r \in Rx(b) : UpdateWith(b, r) /\ UNCHANGED stream /\ UNCHANGED logVars

\* terminalUpdate with the byte b, the bytes received and the codepoints
\* handed to putChar being recorded.
TerminalUpdateRecorded(b) ==
  \E r \in Rx(b) :
    /\ UpdateWith(b, r)
    /\ stream' = [bytes |-> Append(stream.bytes, b),
                  put |-> stream.put \o r.put]
    /\ UNCHANGED logVars

\* terminalLocalEcho handing its character to terminalUpdate's parser.
TerminalLocalEchoThroughParser(c) ==
  \E r \in Rx(c) :
    /\ SetTerm(r.t)
    /\ fgColor' = r.fg
    /\ bgColor' = r.bg
    /\ escBuffer' = r.esc
    /\ inEscSequence' = r.inEsc
    /\ utf8Decoder' = r.dec
    /\ last' = Last("echo", c, r.put, "none", <<>>)
    /\ UNCHANGED <<keyboardVisible, written>>
    /\ UNCHANGED kbdVars /\ UNCHANGED stream /\ UNCHANGED logVars

\* terminalLocalEcho(c): putChar(c).
TerminalLocalEcho(c) ==
  /\ SetTerm(PutChar(Term, c, keyboardVisible))
  /\ last' = Last("echo", c, <<c>>, "none", <<>>)
  /\ UNCHANGED <<fgColor, bgColor, escBuffer, inEscSequence, utf8Decoder,
                 keyboardVisible, written>>
  /\ UNCHANGED kbdVars /\ UNCHANGED stream /\ UNCHANGED logVars

\* handleTerminalScrollTouch, which main's loop calls only while the
\* keyboard is hidden, calling terminalScroll(linesDelta).
HandleTerminalScrollTouch(delta) ==
  /\ ~keyboardVisible
  /\ SetTerm(TerminalScroll(Term, delta))
  /\ last' = Last("scroll", delta, <<>>, "none", <<>>)
  /\ UNCHANGED <<fgColor, bgColor, escBuffer, inEscSequence, utf8Decoder,
                 keyboardVisible, written>>
  /\ UNCHANGED kbdVars /\ UNCHANGED stream /\ UNCHANGED logVars

\* toggleKeyboard.
ToggleKeyboard ==
  /\ keyboardVisible' = ~keyboardVisible
  /\ SetTerm(TerminalScrollForKeyboard(Term, ~keyboardVisible))
  /\ last' = Last("toggle", 0, <<>>, "none", <<>>)
  /\ UNCHANGED <<fgColor, bgColor, escBuffer, inEscSequence, utf8Decoder,
                 written>>
  /\ UNCHANGED kbdVars /\ UNCHANGED stream /\ UNCHANGED logVars

\* The loop of terminalLocalEchoText over the bytes of text from index i
\* on (text holds no NUL), with its local decoder dec: the terminal and the
\* codepoints handed to putChar.
RECURSIVE EchoText(_, _, _, _, _, _)
EchoText(t, put, dec, text, i, kv) ==
  IF i > Len(text)
  THEN [t |-> t, put |-> put]
  ELSE LET r == Utf8Decode(dec, text[i])
       IN  IF r.ok
           THEN EchoText(PutChar(t, r.dec.codepoint, kv),
                         Append(put, r.dec.codepoint), Utf8Init, text, i + 1, kv)
           ELSE EchoText(t, put, r.dec, text, i + 1, kv)

\* terminalLocalEchoText(text).
TerminalLocalEchoText(text) ==
  LET r == EchoText(Term, <<>>, Utf8Init, text, 1, keyboardVisible)
  IN  /\ SetTerm(r.t)
      /\ last' = Last("echoText", Len(text), r.put, "none", <<>>)
      /\ UNCHANGED <<fgColor, bgColor, escBuffer, inEscSequence, utf8Decoder,
                     keyboardVisible>>
      /\ UNCHANGED kbdVars /\ UNCHANGED stream /\ UNCHANGED logVars

\* terminalSendText(text) with the UART open: the text goes out to the UART
\* and to the session log, and is echoed through a local decoder.
TerminalSendText(text) ==
  LET r == EchoText(Term, <<>>, Utf8Init, text, 1, keyboardVisible)
  IN  /\ SetTerm(r.t)
      /\ last' = Last("sendText", Len(text), r.put, "none", <<>>)
      /\ UNCHANGED <<fgColor, bgColor, escBuffer, inEscSequence, utf8Decoder,
                     keyboardVisible, written>>
      /\ UNCHANGED kbdVars /\ UNCHANGED stream /\ UNCHANGED logVars

(* ------------------------------ keyboard ------------------------------- *)

\* The statics of display.h as one value.
Kbd == [hist |-> commandHistory, count |-> historyCount, buf |-> inputBuffer,
        pos |-> inputBufferPos, idx |-> currentHistoryIndex,
        saved |-> savedNewCommand]

SetKbd(k) ==
  /\ commandHistory' = k.hist
  /\ historyCount' = k.count
  /\ inputBuffer' = k.buf
  /\ inputBufferPos' = k.pos
  /\ currentHistoryIndex' = k.idx
  /\ savedNewCommand' = k.saved

\* String(inputBuffer): the bytes before the first NUL.
CString(buf) ==
  LET nul == CHOOSE n \in 0 .. INPUT_BUFFER_SIZE :
               /\ \A i \in 0 .. n - 1 : buf[i] # 0
               /\ n < INPUT_BUFFER_SIZE => buf[n] = 0
  IN  [i \in 1 .. nul |-> buf[i - 1]]

\* saveCommandToHistory storing the command without shifting the entries.
SaveCommandInPlace(k, command) ==
  IF Len(command) = 0 THEN k
  ELSE [k EXCEPT !.hist = [k.hist EXCEPT ![0] = command],
                 !.count = IF k.count < MAX_HISTORY THEN k.count + 1
                           ELSE k.count]

\* saveCommandToHistory(command).
SaveCommandToHistory(k, command) ==
  IF Len(command) = 0 THEN k
  ELSE [k EXCEPT !.hist = [i \in 0 .. MAX_HISTORY - 1 |->
                             IF i = 0 THEN command ELSE k.hist[i - 1]],
                 !.count = IF k.count < MAX_HISTORY THEN k.count + 1
                           ELSE k.count]

\* clearInputLine: one terminalLocalEcho('\b') per byte of the input.
RECURSIVE ClearInputLine(_, _, _)
ClearInputLine(t, n, kv) ==
  IF n <= 0 THEN t ELSE ClearInputLine(PutChar(t, BS, kv), n - 1, kv)

\* loadCommandToBuffer(cmd): the keyboard, the terminal and the codepoints
\* handed to putChar.
LoadCommandToBuffer(k, t, cmd, kv) ==
  LET n == Min(Len(cmd), INPUT_BUFFER_SIZE - 1)
      echo == EchoText(ClearInputLine(t, k.pos, kv), <<>>, Utf8Init, cmd, 1, kv)
  IN  [k |-> [k EXCEPT !.buf = [i \in 0 .. INPUT_BUFFER_SIZE - 1 |->
                                  IF i < n THEN cmd[i + 1] ELSE k.buf[i]],
                       !.pos = n],
       t |-> echo.t,
       put |-> [i \in 1 .. k.pos |-> BS] \o echo.put]

\* historyUp stopping at the end of the array instead of at historyCount.
HistoryUpPastOldest(k, t, kv) ==
  IF k.count = 0 THEN [k |-> k, t |-> t, put |-> <<>>]
  ELSE IF k.idx = -1
  THEN LET buf1 == [k.buf EXCEPT ![k.pos] = 0]
       IN  LoadCommandToBuffer([k EXCEPT !.buf = buf1,
                                         !.saved = CString(buf1), !.idx = 0],
                               t, k.hist[0], kv)
  ELSE IF k.idx < MAX_HISTORY - 1
  THEN LoadCommandToBuffer([k EXCEPT !.idx = k.idx + 1], t,
                           k.hist[k.idx + 1], kv)
  ELSE [k |-> k, t |-> t, put |-> <<>>]

\* historyUp without the snapshot of the unfinished command.
HistoryUpSavesNothing(k, t, kv) ==
  IF k.count = 0 THEN [k |-> k, t |-> t, put |-> <<>>]
  ELSE IF k.idx = -1
  THEN LoadCommandToBuffer([k EXCEPT !.buf = [k.buf EXCEPT ![k.pos] = 0],
                                     !.idx = 0],
                           t, k.hist[0], kv)
  ELSE IF k.idx < k.count - 1
  THEN LoadCommandToBuffer([k EXCEPT !.idx = k.idx + 1], t,
                           k.hist[k.idx + 1], kv)
  ELSE [k |-> k, t |-> t, put |-> <<>>]

\* historyUp.
HistoryUp(k, t, kv) ==
  IF k.count = 0 THEN [k |-> k, t |-> t, put |-> <<>>]
  ELSE IF k.idx = -1
  THEN LET buf1 == [k.buf EXCEPT ![k.pos] = 0]
       IN  LoadCommandToBuffer([k EXCEPT !.buf = buf1,
                                         !.saved = CString(buf1), !.idx = 0],
                               t, k.hist[0], kv)
  ELSE IF k.idx < k.count - 1
  THEN LoadCommandToBuffer([k EXCEPT !.idx = k.idx + 1], t,
                           k.hist[k.idx + 1], kv)
  ELSE [k |-> k, t |-> t, put |-> <<>>]

\* historyDown loading the entry it leaves.
HistoryDownLoadsCurrent(k, t, kv) ==
  IF k.idx = -1 THEN [k |-> k, t |-> t, put |-> <<>>]
  ELSE LoadCommandToBuffer([k EXCEPT !.idx = k.idx - 1], t, k.hist[k.idx], kv)

\* historyDown.
HistoryDown(k, t, kv) ==
  IF k.idx = -1 THEN [k |-> k, t |-> t, put |-> <<>>]
  ELSE IF k.idx - 1 = -1
  THEN LET r == LoadCommandToBuffer([k EXCEPT !.idx = -1], t, k.saved, kv)
       IN  [r EXCEPT !.k = [r.k EXCEPT !.saved = <<>>]]
  ELSE LoadCommandToBuffer([k EXCEPT !.idx = k.idx - 1], t,
                           k.hist[k.idx - 1], kv)

\* handleKeyboardTouch, the ENTER key: the keyboard before "\r\n" is sent.
EnterCommand(k) ==
  IF k.pos > 0
  THEN LET buf1 == [k.buf EXCEPT ![k.pos] = 0]
           k1 == SaveCommandToHistory([k EXCEPT !.buf = buf1], CString(buf1))
       IN  [k1 EXCEPT !.pos = 0, !.idx = -1, !.saved = <<>>]
  ELSE k

\* handleKeyboardTouch, which main's loop calls only while the keyboard is
\* shown, with a touch on a character key: the key goes into the input
\* buffer if there is room and is echoed.
KeyPress(c) ==
  /\ keyboardVisible
  /\ SetKbd(IF inputBufferPos < INPUT_BUFFER_SIZE - 1
            THEN [Kbd EXCEPT !.buf = [inputBuffer EXCEPT ![inputBufferPos] = c],
                             !.pos = inputBufferPos + 1]
            ELSE Kbd)
  /\ SetTerm(PutChar(Term, c, keyboardVisible))
  /\ nav' = IF currentHistoryIndex = -1 THEN nav ELSE [nav EXCEPT !.ups = -1]
  /\ last' = Last("key", c, <<c>>, "none", <<>>)
  /\ UNCHANGED <<fgColor, bgColor, escBuffer, inEscSequence, utf8Decoder,
                 keyboardVisible, written, stream>>
  /\ UNCHANGED logVars

\* The BKSP key's loop over the continuation bytes (10xxxxxx) that end the
\* input: the position it stops at.
RECURSIVE SkipContinuationBytes(_, _)
SkipContinuationBytes(buf, pos) ==
  IF pos > 0 /\ (buf[pos] \div 64) % 4 = 2
  THEN SkipContinuationBytes(buf, pos - 1)
  ELSE pos

\* handleKeyboardTouch with a touch on BKSP: the last character leaves the
\* input buffer and a backspace is echoed.
BackspaceKey ==
  /\ keyboardVisible
  /\ SetKbd(IF inputBufferPos > 0
            THEN [Kbd EXCEPT !.pos = SkipContinuationBytes(inputBuffer,
                                                           inputBufferPos - 1)]
            ELSE Kbd)
  /\ SetTerm(PutChar(Term, BS, keyboardVisible))
  /\ nav' = IF currentHistoryIndex = -1 THEN nav ELSE [nav EXCEPT !.ups = -1]
  /\ last' = Last("bksp", inputBufferPos, <<BS>>, "none", <<>>)
  /\ UNCHANGED <<fgColor, bgColor, escBuffer, inEscSequence, utf8Decoder,
                 keyboardVisible, written, stream>>
  /\ UNCHANGED logVars

\* handleKeyboardTouch with a touch on ENTER: the command is saved and sent,
\* the input and the browsing are reset, then "\r\n" is sent with its echo.
EnterKey ==
  /\ keyboardVisible
  /\ SetKbd(EnterCommand(Kbd))
  /\ SetTerm(PutChar(PutChar(Term, CR, keyboardVisible), LF, keyboardVisible))
  /\ nav' = [ups |-> 0, downs |-> 0, edit |-> <<>>,
             pushed |-> IF inputBufferPos > 0
                        THEN Append(nav.pushed,
                                    [i \in 1 .. inputBufferPos |->
                                       inputBuffer[i - 1]])
                        ELSE nav.pushed]
  /\ last' = Last("enter", inputBufferPos, <<CR, LF>>, "none", <<>>)
  /\ UNCHANGED <<fgColor, bgColor, escBuffer, inEscSequence, utf8Decoder,
                 keyboardVisible, written, stream>>
  /\ UNCHANGED logVars

\* handleKeyboardTouch with a touch on the Up arrow: historyUp.
HistoryUpKey ==
  LET r == HistoryUp(Kbd, Term, keyboardVisible)
  IN  /\ keyboardVisible
      /\ SetKbd(r.k)
      /\ SetTerm(r.t)
      /\ nav' = [nav EXCEPT !.ups = IF nav.ups >= 0 /\ nav.downs = 0
                                    THEN nav.ups + 1 ELSE -1,
                            !.edit = IF currentHistoryIndex = -1
                                     THEN [i \in 1 .. inputBufferPos |->
                                             inputBuffer[i - 1]]
                                     ELSE nav.edit]
      /\ last' = Last("up", 0, r.put, "none", <<>>)
      /\ UNCHANGED <<fgColor, bgColor, escBuffer, inEscSequence, utf8Decoder,
                     keyboardVisible, written, stream>>
      /\ UNCHANGED logVars

\* handleKeyboardTouch with a touch on the Down arrow: historyDown.
HistoryDownKey ==
  LET r == HistoryDown(Kbd, Term, keyboardVisible)
  IN  /\ keyboardVisible
      /\ SetKbd(r.k)
      /\ SetTerm(r.t)
      /\ nav' = IF r.k.idx = -1
                THEN [nav EXCEPT !.ups = 0, !.downs = 0, !.edit = <<>>]
                ELSE IF nav.ups >= 1
                THEN [nav EXCEPT !.downs = nav.downs + 1]
                ELSE nav
      /\ last' = Last("down", IF nav.ups >= 1 THEN nav.downs + 1 ELSE 0,
                      r.put, "none", <<>>)
      /\ UNCHANGED <<fgColor, bgColor, escBuffer, inEscSequence, utf8Decoder,
                     keyboardVisible, written, stream>>
      /\ UNCHANGED logVars

(* ------------------------------- logger -------------------------------- *)

\* Everything but the logger's state.
deviceVars == <<screenBuffer, cursorX, cursorY, scrollOffset, totalLines,
                fgColor, bgColor, escBuffer, inEscSequence, utf8Decoder,
                keyboardVisible, written, commandHistory, historyCount,
                inputBuffer, inputBufferPos, currentHistoryIndex,
                savedNewCommand, nav, stream>>

\* String(i) for i >= 0: its decimal digits.
RECURSIVE DecimalDigits(_)
DecimalDigits(i) ==
  IF i < 10 THEN <<Ch0 + i>>
  ELSE Append(DecimalDigits(i \div 10), Ch0 + (i % 10))

\* The NNN of "/LOGS/session_NNN.txt" as sdStartRecording and
\* sdCleanOldSessions build it: i padded with zeros to three digits.
SessionName(i) ==
  (IF i < 100 THEN <<Ch0>> ELSE <<>>) \o (IF i < 10 THEN <<Ch0>> ELSE <<>>)
    \o DecimalDigits(i)

\* String::toInt on the digits between "session_" and ".txt".
RECURSIVE ToInt(_)
ToInt(numStr) ==
  IF numStr = <<>> THEN 0
  ELSE ToInt(SubSeq(numStr, 1, Len(numStr) - 1)) * 10
         + (numStr[Len(numStr)] - Ch0)

\* findNextSessionNumber over the files of /LOGS.
FindNextSessionNumber(files) ==
  LET nums == {0} \cup {ToInt(f) : f \in files}
      maxNum == CHOOSE m \in nums : \A n \in nums : n <= m
  IN  maxNum + 1

\* sdCleanOldSessions over the files of /LOGS: the files it leaves.
SdCleanOldSessions(files) ==
  LET fileCount == Cardinality(files)
  IN  IF fileCount > MAX_SESSIONS
      THEN files \ {SessionName(i) : i \in 1 .. fileCount - MAX_SESSIONS}
      ELSE files

\* sdLogRXCodepoint's encoder taking 0x800 for a two-byte codepoint.
Utf8EncodeBoundaryOff(codepoint) ==
  IF codepoint < 128 THEN <<codepoint>>
  ELSE IF codepoint <= 2048
  THEN <<192 + (codepoint \div 64), 128 + (codepoint % 64)>>
  ELSE IF codepoint < 65536
  THEN <<224 + (codepoint \div 4096), 128 + ((codepoint \div 64) % 64),
         128 + (codepoint % 64)>>
  ELSE IF codepoint < 1114112
  THEN <<240 + (codepoint \div 262144), 128 + ((codepoint \div 4096) % 64),
         128 + ((codepoint \div 64) % 64), 128 + (codepoint % 64)>>
  ELSE <<>>

\* sdLogRXCodepoint, the conversion of the codepoint to UTF-8: the bytes
\* utf8[0 .. len-1].  0xC0 | (cp >> 6) is 192 + cp \div 64 for cp < 0x800,
\* and so on; 0x80 | (x & 0x3F) is 128 + x % 64.
Utf8Encode(codepoint) ==
  IF codepoint < 128 THEN <<codepoint>>
  ELSE IF codepoint < 2048
  THEN <<192 + (codepoint \div 64), 128 + (codepoint % 64)>>
  ELSE IF codepoint < 65536
  THEN <<224 + (codepoint \div 4096), 128 + ((codepoint \div 64) % 64),
         128 + (codepoint % 64)>>
  ELSE IF codepoint < 1114112
  THEN <<240 + (codepoint \div 262144), 128 + ((codepoint \div 4096) % 64),
         128 + ((codepoint \div 64) % 64), 128 + (codepoint % 64)>>
  ELSE <<>>

\* utf8Decode called with the next byte of the encoder's output.
DecodeEncoded ==
  LET b == encoded.bytes[encoded.fed + 1]
      r == Utf8Decode(utf8Decoder, b)
  IN  /\ encoded.fed < Len(encoded.bytes)
      /\ utf8Decoder' = r.dec
      /\ encoded' = [encoded EXCEPT !.fed = encoded.fed + 1]
      /\ last' = Last("utf8Decode", b,
                      IF r.ok THEN <<r.dec.codepoint>> ELSE <<>>,
                      IF r.ok THEN "decoded"
                      ELSE IF r.dec.bytesNeeded > 0 THEN "pending"
                      ELSE "rejected",
                      <<>>)
      /\ UNCHANGED <<screenBuffer, cursorX, cursorY, scrollOffset, totalLines,
                     fgColor, bgColor, escBuffer, inEscSequence,
                     keyboardVisible, written>>
      /\ UNCHANGED kbdVars /\ UNCHANGED stream
      /\ UNCHANGED <<logFiles, isRecording, sessionNumber, currentStatus>>

\* sdStartRecording leaving the status alone when SD.open fails.
SdStartRecordingKeepsStatus(opens) ==
  /\ IF currentStatus \notin {"SD_READY", "SD_RECORDING"}
     THEN /\ UNCHANGED <<logFiles, isRecording, sessionNumber, currentStatus>>
          /\ last' = Last("sdStart", IF opens THEN 1 ELSE 0, <<>>, "false", <<>>)
     ELSE IF isRecording
     THEN /\ UNCHANGED <<logFiles, isRecording, sessionNumber, currentStatus>>
          /\ last' = Last("sdStart", IF opens THEN 1 ELSE 0, <<>>, "true", <<>>)
     ELSE /\ sessionNumber' = FindNextSessionNumber(logFiles)
          /\ IF opens
             THEN /\ logFiles' = logFiles \cup
                                   {SessionName(FindNextSessionNumber(logFiles))}
                  /\ isRecording' = TRUE
                  /\ currentStatus' = "SD_RECORDING"
                  /\ last' = Last("sdStart", 1, <<>>, "true", <<>>)
             ELSE /\ UNCHANGED <<logFiles, isRecording, currentStatus>>
                  /\ last' = Last("sdStart", 0, <<>>, "false", <<>>)
  /\ UNCHANGED encoded
  /\ UNCHANGED deviceVars

\* sdStartRecording; opens tells whether SD.open gives a file.  The return
\* value is recorded in last.ev.
SdStartRecording(opens) ==
  /\ IF currentStatus \notin {"SD_READY", "SD_RECORDING"}
     THEN /\ UNCHANGED <<logFiles, isRecording, sessionNumber, currentStatus>>
          /\ last' = Last("sdStart", IF opens THEN 1 ELSE 0, <<>>, "false", <<>>)
     ELSE IF isRecording
     THEN /\ UNCHANGED <<logFiles, isRecording, sessionNumber, currentStatus>>
          /\ last' = Last("sdStart", IF opens THEN 1 ELSE 0, <<>>, "true", <<>>)
     ELSE /\ sessionNumber' = FindNextSessionNumber(logFiles)
          /\ IF opens
             THEN /\ logFiles' = logFiles \cup
                                   {SessionName(FindNextSessionNumber(logFiles))}
                  /\ isRecording' = TRUE
                  /\ currentStatus' = "SD_RECORDING"
                  /\ last' = Last("sdStart", 1, <<>>, "true", <<>>)
             ELSE /\ UNCHANGED <<logFiles, isRecording>>
                  /\ currentStatus' = "SD_ERROR"
                  /\ last' = Last("sdStart", 0, <<>>, "false", <<>>)
  /\ UNCHANGED encoded
  /\ UNCHANGED deviceVars

\* sdStopRecording.
SdStopRecording ==
  /\ IF isRecording
     THEN /\ isRecording' = FALSE
          /\ currentStatus' = "SD_READY"
          /\ logFiles' = SdCleanOldSessions(logFiles)
     ELSE UNCHANGED <<logFiles, isRecording, currentStatus>>
  /\ last' = Last("sdStop", 0, <<>>, "none", <<>>)
  /\ UNCHANGED <<sessionNumber, encoded>>
  /\ UNCHANGED deviceVars

\* sdInit; mounted tells whether SD.begin succeeds and finds a card.
SdInit(mounted) ==
  /\ currentStatus' = IF mounted THEN "SD_READY" ELSE "SD_NOT_PRESENT"
  /\ last' = Last("sdInit", IF mounted THEN 1 ELSE 0, <<>>, "none", <<>>)
  /\ UNCHANGED <<logFiles, isRecording, sessionNumber, encoded>>
  /\ UNCHANGED deviceVars

(* --------------------------- specifications ---------------------------- *)

\* The environment stops adding lines at MaxTotalLines.
MayAddLine == totalLines < MaxTotalLines

\* Printable characters and line feeds given to putChar from the cleared
\* terminal.
TextChars == {Cha, LF}

NextText == \E c \in TextChars : MayAddLine /\ TerminalLocalEcho(c)

SpecText == Init /\ [][NextText]_vars

\* Lines written one after the other, each ended by a line feed: line k is
\* 1 .. COLS - 1 copies of the k-th letter, capital or small, so that a
\* row's content tells which line it holds.  The lines stop at
\* BUFFER_ROWS + ExtraLines.
LinesToWrite == TERMINAL_BUFFER_ROWS + ExtraLines

WriteLine ==
  /\ Len(written) < LinesToWrite
  /\ \E w \in 1 .. TERMINAL_COLS - 1, letter \in {ChA, Cha} :
       LET text == [i \in 1 .. w |-> letter + Len(written)]
       IN  /\ TerminalLocalEchoText(Append(text, LF))
           /\ written' = Append(written, text)

\* A drag of one or two rows either way, and one past any scroll range.
ScrollDeltas == {-1000000, -1, 1, 2, 1000000}

NextLines ==
  \/ WriteLine
  \/ \E d \in ScrollDeltas : HandleTerminalScrollTouch(d)
  \/ ToggleKeyboard

SpecLines == Init /\ [][NextLines]_vars

\* Long escape sequences: in Ground the environment sends ESC; after ESC it
\* sends '[' first and then the digit 9 or a cursor-movement letter; once
\* the escape buffer is full it sends any of a digit, a letter, ESC, a line
\* feed and a printable character.  Nothing is sent once the cursor has
\* left the grid: the next store through it is outside the array.
CursorInGrid == InGrid(cursorY, cursorX)

LongBytes ==
  IF inEscSequence
  THEN IF Len(escBuffer) = 0 THEN {ChLBracket}
       ELSE IF Len(escBuffer) < ESC_BUFFER_SIZE - 1
       THEN {Ch9, ChA, ChB, ChC, ChD}
       ELSE {Ch9, ChB, ChC, ESC, LF, Cha}
  ELSE {ESC}

NextLong == \E b \in LongBytes : CursorInGrid /\ TerminalUpdate(b)

SpecLong == Init /\ [][NextLong]_vars

\* The terminal in use: in Ground the UART delivers ESC, a space, a line
\* feed, a carriage return or a backspace (while lines may be added); after
\* ESC it delivers '[', then at most MaxParamBytes of '2' and ';' and one of
\* the letters H, J, A, B.  The user drags the terminal while the keyboard
\* is hidden and toggles the keyboard at any time.
GroundBytes == {ESC, SPACE, LF, CR, BS}

CsiBytes(digits, letters) ==
  IF Len(escBuffer) = 0 THEN {ChLBracket}
  ELSE IF Len(escBuffer) <= MaxParamBytes
  THEN digits \cup {ChSemi} \cup letters
  ELSE letters

MainBytes ==
  IF inEscSequence THEN CsiBytes({Ch2}, {ChH, ChJ, ChA, ChB})
  ELSE IF MayAddLine THEN GroundBytes ELSE {}

Next ==
  \/ \E b \in MainBytes : TerminalUpdate(b)
  \/ \E d \in ScrollDeltas : HandleTerminalScrollTouch(d)
  \/ ToggleKeyboard

Spec == Init /\ [][Next]_vars

\* Short control sequences: in Ground the UART delivers ESC or a line feed;
\* after ESC it delivers '[', then at most MaxParamBytes of '0', '1', '3'
\* and ';' and one of the letters H, f, A, B, C, D, m.
EscBytes ==
  IF inEscSequence
  THEN CsiBytes({Ch0, Ch1, Ch3}, {ChH, Chf, ChA, ChB, ChC, ChD, Chm})
  ELSE IF MayAddLine THEN {ESC, LF} ELSE {ESC}

NextEsc == \E b \in EscBytes : TerminalUpdate(b)

SpecEsc == Init /\ [][NextEsc]_vars

\* The decoder alone: utf8Decode is called with a byte of each class (ASCII,
\* continuation, two-, three- and four-byte lead, invalid lead) at the ends
\* of its range, and utf8Init is called at any time.
Utf8Bytes == {0, 10, 65, 127, 128, 144, 191, 192, 195, 208, 223, 224, 226,
              239, 240, 244, 247, 248, 255}

Utf8DecodeCall(b) ==
  LET r == Utf8Decode(utf8Decoder, b)
  IN  /\ utf8Decoder' = r.dec
      /\ last' = Last("utf8Decode", b,
                      IF r.ok THEN <<r.dec.codepoint>> ELSE <<>>,
                      IF r.ok THEN "decoded"
                      ELSE IF r.dec.bytesNeeded > 0 THEN "pending"
                      ELSE "rejected",
                      <<>>)
      /\ UNCHANGED <<screenBuffer, cursorX, cursorY, scrollOffset, totalLines,
                     fgColor, bgColor, escBuffer, inEscSequence,
                     keyboardVisible, written>>
      /\ UNCHANGED kbdVars /\ UNCHANGED stream /\ UNCHANGED logVars

Utf8InitCall ==
  /\ utf8Decoder' = Utf8Init
  /\ last' = Last("utf8Init", 0, <<>>, "none", <<>>)
  /\ UNCHANGED <<screenBuffer, cursorX, cursorY, scrollOffset, totalLines,
                 fgColor, bgColor, escBuffer, inEscSequence,
                 keyboardVisible, written>>
  /\ UNCHANGED kbdVars /\ UNCHANGED stream /\ UNCHANGED logVars

NextUtf8 ==
  \/ \E b \in Utf8Bytes : Utf8DecodeCall(b)
  \/ Utf8InitCall

SpecUtf8 == Init /\ [][NextUtf8]_vars

\* Colour sequences: in Ground the UART delivers ESC; after ESC it delivers
\* '[', then at most MaxSgrBytes of '0', '1', '3' and ';', and 'm'.
SgrBytes ==
  IF inEscSequence
  THEN IF Len(escBuffer) = 0 THEN {ChLBracket}
       ELSE IF Len(escBuffer) <= MaxSgrBytes
       THEN {Ch0, Ch1, Ch3, ChSemi, Chm}
       ELSE {Chm}
  ELSE {ESC}

NextSgr == \E b \in SgrBytes : TerminalUpdate(b)

SpecSgr == Init /\ [][NextSgr]_vars

\* Editing: while at most MaxEditLines lines exist, the UART delivers in
\* Ground ESC, the letter a, a backspace, a line feed or a carriage return;
\* after ESC it delivers '[', '(' or K, then at most one digit 1 or 2, and
\* one of the letters K, J, A, D, Z.
EditBytes ==
  IF inEscSequence
  THEN IF Len(escBuffer) = 0 THEN {ChLBracket, ChLParen, ChK}
       ELSE IF Len(escBuffer) = 1 THEN {Ch1, Ch2, ChK, ChJ, ChA, ChD, ChZ}
       ELSE {ChK, ChJ, ChA, ChD, ChZ}
  ELSE {ESC, Cha, BS, LF, CR}

NextEdit ==
  \E b \in EditBytes : totalLines <= MaxEditLines /\ TerminalUpdate(b)

SpecEdit == Init /\ [][NextEdit]_vars

\* Runs of text: with the cursor at column 0 the keyboard echoes a run of
\* 1 .. COLS letters a, b, ... in one terminalLocalEchoText call; a line
\* feed is echoed at any time.  Lines are added up to MaxTotalLines.
RunText(n) == [i \in 1 .. n |-> Cha + i - 1]

EchoRun ==
  /\ MayAddLine
  /\ cursorX = 0
  /\ \E n \in 1 .. TERMINAL_COLS : TerminalLocalEchoText(RunText(n))
  /\ UNCHANGED written

EchoLineFeed == MayAddLine /\ TerminalLocalEcho(LF)

NextRuns == EchoRun \/ EchoLineFeed

SpecRuns == Init /\ [][NextRuns]_vars

\* Byte streams: the UART delivers, one byte per terminalUpdate call, up to
\* MaxStreamLen bytes that are neither ESC nor NUL: a line feed, an ASCII
\* letter, continuation bytes, two-, three- and four-byte leads and an
\* invalid lead.
StreamBytes == {LF, 65, 128, 144, 208, 226, 240, 255}

NextStream ==
  \E b \in StreamBytes :
    Len(stream.bytes) < MaxStreamLen /\ TerminalUpdateRecorded(b)

SpecStream == Init /\ [][NextStream]_vars

\* Escape sequences inside multi-byte characters: up to MaxMixedLen bytes,
\* one per terminalUpdate call.  In Ground the UART delivers ESC, a two-
\* and a three-byte lead, a continuation byte and an ASCII letter; within a
\* sequence it delivers '[', a continuation byte and the letter 'A'.
MaxMixedLen == 6

MixedBytes ==
  IF inEscSequence THEN {ChLBracket, 144, ChA} ELSE {ESC, 208, 226, 144, ChA}

NextMixed ==
  \E b \in MixedBytes :
    Len(stream.bytes) < MaxMixedLen /\ TerminalUpdateRecorded(b)

SpecMixed == Init /\ [][NextMixed]_vars

\* Local echo between received bytes.  The UART delivers ESC, '[' and a
\* terminator, or the two bytes of a two-byte character; between any two of
\* them the keyboard echoes a character (ESC or a letter) or a text (ESC and
\* a letter, or a two-byte character), or sends such a text.  Nothing more
\* arrives once MaxEditLines lines are in use.
EchoRxBytes ==
  IF inEscSequence
  THEN IF Len(escBuffer) = 0 THEN {ChLBracket} ELSE {ChA}
  ELSE {ESC, 208, 144}

EchoChars == {ESC, Cha}

EchoTexts == {<<ESC, Cha>>, <<208, 144>>}

NextEcho ==
  /\ totalLines <= MaxEditLines
  /\ \/ \E b \in EchoRxBytes : TerminalUpdate(b)
     \/ \E c \in EchoChars : TerminalLocalEcho(c)
     \/ \E text \in EchoTexts : TerminalLocalEchoText(text) /\ UNCHANGED written
     \/ \E text \in EchoTexts : TerminalSendText(text)

SpecEcho == Init /\ [][NextEcho]_vars

\* The keyboard: the user shows it and, until the buffer's rows are used up,
\* presses a letter key while the input has room (the k-th letter of the
\* alphabet while typing the k-th command), ENTER (a command at most
\* MAX_HISTORY + 1 times), Up (at most MAX_HISTORY + 1 times in
\* a row) and Down.
KeyChars == {Cha + Len(nav.pushed)}

\* The environment presses keys while the buffer has rows never used.
RowsLeft == totalLines < TERMINAL_BUFFER_ROWS

NextKeys ==
  \/ \E c \in KeyChars :
       RowsLeft /\ inputBufferPos < INPUT_BUFFER_SIZE - 1 /\ KeyPress(c)
  \/ /\ RowsLeft
     /\ inputBufferPos > 0 => Len(nav.pushed) <= MAX_HISTORY
     /\ EnterKey
  \/ RowsLeft /\ nav.ups <= MAX_HISTORY /\ HistoryUpKey
  \/ RowsLeft /\ HistoryDownKey
  \/ ~keyboardVisible /\ ToggleKeyboard

SpecKeys == Init /\ [][NextKeys]_vars

\* The keyboard with its BKSP key: the keys of SpecKeys, and BKSP while
\* the input holds something.
NextErase ==
  \/ NextKeys
  \/ RowsLeft /\ inputBufferPos > 0 /\ BackspaceKey

SpecErase == Init /\ [][NextErase]_vars

\* Recording sessions: the card holds at most MAX_SESSIONS session files
\* numbered up to MAX_SESSIONS + 2 when the device starts; recording is
\* started and stopped until the session numbers reach MaxSessionNumber.
MaxSessionNumber == 2 * MAX_SESSIONS + 4

CardContents ==
  {{SessionName(i) : i \in S} :
     S \in {T \in SUBSET (1 .. MAX_SESSIONS + 2) :
              Cardinality(T) <= MAX_SESSIONS}}

InitSessions ==
  /\ Booted
  /\ logFiles \in CardContents
  /\ isRecording = FALSE
  /\ sessionNumber = 0
  /\ currentStatus = "SD_READY"
  /\ encoded = NothingEncoded

NextSessions ==
  \/ FindNextSessionNumber(logFiles) <= MaxSessionNumber
       /\ SdStartRecording(TRUE)
  \/ SdStopRecording

SpecSessions == InitSessions /\ [][NextSessions]_vars

\* The card: setup calls sdInit once, with or without a card in the slot;
\* from then on the REC icon starts and stops the recording, and SD.open
\* may fail at any start.
InitCard ==
  /\ Booted
  /\ logFiles \in CardContents
  /\ isRecording = FALSE
  /\ sessionNumber = 0
  /\ currentStatus = "SD_NOT_PRESENT"
  /\ encoded = NothingEncoded

NextCard ==
  \/ \E mounted \in BOOLEAN : last.op = "init" /\ SdInit(mounted)
  \/ \E opens \in BOOLEAN :
       /\ last.op # "init"
       /\ FindNextSessionNumber(logFiles) <= MaxSessionNumber
       /\ SdStartRecording(opens)
  \/ last.op # "init" /\ SdStopRecording

SpecCard == InitCard /\ [][NextCard]_vars

\* The encoder against the decoder: a codepoint next to one of the
\* encoder's boundaries (0, 0x80, 0x800, 0x10000, 0x10FFFF), or a letter, a
\* Cyrillic letter, the euro sign, a surrogate or an emoji, has been
\* encoded and the decoder is freshly initialised; the bytes are handed to
\* utf8Decode one at a time.
Codepoints ==
  (0 .. CodepointSpread)
    \cup {b + d : b \in {128, 2048, 65536},
                  d \in (0 - CodepointSpread) .. CodepointSpread}
    \cup ((1114111 - CodepointSpread) .. 1114111)
    \cup {65, 1025, 1040, 8364, 55296, 57343, 128512}

InitRoundTrip ==
  /\ Booted
  /\ logFiles = {}
  /\ isRecording = FALSE
  /\ sessionNumber = 0
  /\ currentStatus = "SD_NOT_PRESENT"
  /\ encoded \in {[cp |-> c, bytes |-> Utf8Encode(c), fed |-> 0] :
                    c \in Codepoints}

NextRoundTrip == DecodeEncoded

SpecRoundTrip == InitRoundTrip /\ [][NextRoundTrip]_vars

(* ------------------------------- claims -------------------------------- *)

\* The step hands a line feed to putChar, or a printable codepoint with the
\* cursor at the last column (a column-overflow wrap).
NewLineStep ==
  /\ last'.put # <<>>
  /\ \/ last'.put[1] = LF
     \/ last'.put[1] >= 32 /\ cursorX = TERMINAL_COLS - 1

\* C1: every explicit newline and every column-overflow wrap of printable
\* text and line feeds written from the cleared terminal raises the cursor's
\* absolute line number (computed from totalLines and the cursor slot) by
\* exactly 1, and that number is totalLines - 1 afterwards, before and after
\* the buffer has wrapped.
C1_NewLineOpensNextAbsoluteLine ==
  [][NewLineStep =>
       /\ CursorLineNumber(totalLines', cursorY')
            = CursorLineNumber(totalLines, cursorY) + 1
       /\ CursorLineNumber(totalLines', cursorY') = totalLines' - 1]_vars

\* The text of written line i padded to a row; line Len(written) is the
\* open line the cursor is on, still blank.
LineText(i) ==
  [x \in Cols |-> IF i < Len(written) /\ x < Len(written[i + 1])
                  THEN written[i + 1][x + 1] ELSE SPACE]

AllLinesWritten == Len(written) = LinesToWrite

\* C2: once BUFFER_ROWS + ExtraLines lines have been written, at every scroll
\* offset no row terminalRedraw draws holds one of the first ExtraLines
\* lines, the BUFFER_ROWS most recent lines (the open one included) are
\* stored unmodified, line i in slot i % BUFFER_ROWS, and each row drawn as
\* absolute line i shows the text written as line i.
C2_RecentLinesKeptAndShownInOrder ==
  AllLinesWritten =>
    /\ \A r \in DrawnRows(totalLines, scrollOffset, keyboardVisible) :
         \A j \in 0 .. ExtraLines - 1 : screenBuffer[r.slot] # LineText(j)
    /\ \A i \in LinesToWrite - TERMINAL_BUFFER_ROWS + 1 .. LinesToWrite :
         screenBuffer[i % TERMINAL_BUFFER_ROWS] = LineText(i)
    /\ \A r \in DrawnRows(totalLines, scrollOffset, keyboardVisible) :
         screenBuffer[r.slot] = LineText(r.line)

\* C3: after every byte processed by terminalUpdate the cursor column is in
\* [0, TERMINAL_COLS) and the cursor row in [0, TERMINAL_BUFFER_ROWS),
\* whatever the size of a cursor-movement parameter that fits the escape
\* buffer.
C3_CursorStaysInGrid ==
  /\ cursorX >= 0 /\ cursorX < TERMINAL_COLS
  /\ cursorY >= 0 /\ cursorY < TERMINAL_BUFFER_ROWS

\* C4: in every reachable state 0 <= scrollOffset <= max(0, totalLines -
\* visibleRows), visibleRows being what terminalRedraw uses with the keyboard
\* hidden or shown, across incoming bytes, drags, clears and keyboard
\* toggles.
C4_ScrollOffsetInRange ==
  /\ scrollOffset >= 0
  /\ scrollOffset <= Max(0, totalLines - VisibleRows(keyboardVisible))

\* C4 witness: with the keyboard shown the offset is positive and at the
\* upper limit.
C4_Witness ==
  /\ keyboardVisible
  /\ scrollOffset > 0
  /\ scrollOffset = totalLines - VisibleRows(keyboardVisible)

\* C5: terminalScroll(delta) sets scrollOffset to clamp(scrollOffset + delta,
\* 0, max(0, totalLines - viewport rows)); a positive delta never shows newer
\* lines and a negative one never older lines; terminalScroll(+1000000)
\* makes the first visible line 0 and terminalScroll(-1000000) makes
\* scrollOffset 0.
C5_TerminalScrollClamps ==
  [][last'.op = "scroll" =>
       LET rows == VisibleRows(keyboardVisible)
           before == FirstLineToShow(totalLines, rows, scrollOffset)
           after == FirstLineToShow(totalLines', rows, scrollOffset')
       IN  /\ scrollOffset' = Constrain(scrollOffset + last'.arg, 0,
                                        Max(0, totalLines - rows))
           /\ last'.arg > 0 => after <= before
           /\ last'.arg < 0 => after >= before
           /\ last'.arg = 1000000 => after = 0
           /\ last'.arg = -1000000 => scrollOffset' = 0
           /\ UNCHANGED <<totalLines, screenBuffer, cursorX, cursorY>>]_vars

\* C5 witness: a drag past the range has brought line 0 to the top of a
\* history longer than the screen.
C5_Witness ==
  /\ last.op = "scroll" /\ last.arg = 1000000
  /\ scrollOffset > 0
  /\ FirstLineToShow(totalLines, VisibleRows(keyboardVisible), scrollOffset) = 0

\* The byte is malformed input for the decoder d.
Malformed(d, byte) ==
  \/ d.bytesNeeded = 0 /\ (byte \in 128 .. 191 \/ byte \in 248 .. 255)
  \/ d.bytesNeeded > 0 /\ byte \notin 128 .. 191

\* C6: utf8Decode on an invalid leading byte while idle, or on a byte that is
\* not a continuation byte while one is expected, returns false, resets the
\* decoder to its initial state and emits no codepoint; the byte is not
\* taken as the start of a new character.
C6_Utf8DropsMalformed ==
  [][(last'.op = "utf8Decode" /\ Malformed(utf8Decoder, last'.arg)) =>
       /\ last'.put = <<>>
       /\ last'.ev = "rejected"
       /\ utf8Decoder' = Utf8Init]_vars

\* C6 witness: an ASCII byte has been rejected, which happens only when it
\* followed a leading byte.
C6_Witness ==
  /\ last.op = "utf8Decode" /\ last.ev = "rejected" /\ last.arg = 65
  /\ utf8Decoder = Utf8Init

\* C7: with ESC_BUFFER_SIZE - 1 bytes collected after ESC and no letter among
\* them, the next byte, whatever it is, leaves the interpreter in Ground
\* with an empty buffer, is handed to nobody (not to putChar, not to the
\* decoder, not taken as a terminator or as a new ESC) and changes neither
\* buffer, cursor, totalLines, scrollOffset nor the colours.
C7_EscOverflowDropsByte ==
  [][(last'.op = "rx" /\ inEscSequence
        /\ Len(escBuffer) = ESC_BUFFER_SIZE - 1) =>
       /\ ~inEscSequence'
       /\ escBuffer' = <<>>
       /\ last'.put = <<>>
       /\ UNCHANGED <<screenBuffer, cursorX, cursorY, totalLines, scrollOffset,
                      fgColor, bgColor, utf8Decoder>>]_vars

\* C7 witness: the escape buffer has overflowed on a letter that would have
\* moved the cursor had it been taken as a terminator.
C7_Witness ==
  /\ last.op = "rx" /\ last.ev = "escOverflow" /\ last.arg = ChB
  /\ ~inEscSequence

\* The parameter bytes of a completed CSI sequence, between '[' and the
\* terminator.
ParamBytes(seq) == SubSeq(seq, 2, Len(seq) - 1)

Separators(s) == {i \in 1 .. Len(s) : s[i] = ChSemi}

\* The decimal value of a string of digits, 0 for the empty string.
RECURSIVE DecimalValue(_)
DecimalValue(s) ==
  IF Len(s) = 0 THEN 0
  ELSE DecimalValue(SubSeq(s, 1, Len(s) - 1)) * 10 + (s[Len(s)] - Ch0)

\* The field before and the field after the one separator of s.
FirstField(s) ==
  IF Separators(s) = {} THEN s
  ELSE SubSeq(s, 1, (CHOOSE i \in Separators(s) : TRUE) - 1)

SecondField(s) ==
  IF Separators(s) = {} THEN <<>>
  ELSE SubSeq(s, (CHOOSE i \in Separators(s) : TRUE) + 1, Len(s))

\* A field's value, 1 when the field is absent or 0.
OneBased(field) == IF DecimalValue(field) = 0 THEN 1 ELSE DecimalValue(field)

\* The step completes a CSI sequence with one of the terminators.
CsiDone(terminators) ==
  /\ last'.op = "rx" /\ last'.ev = "escDone"
  /\ last'.arg \in terminators
  /\ last'.seq[1] = ChLBracket

\* C8: ESC [ r ; c H, and the same ended by f, puts the cursor at row
\* clamp(r - 1, 0, TERMINAL_ROWS - 1) and column clamp(c - 1, 0,
\* TERMINAL_COLS - 1), r and c being 1 when absent or 0.
C8_CursorPositionRowThenColumn ==
  [][(CsiDone({ChH, Chf})
        /\ Cardinality(Separators(ParamBytes(last'.seq))) <= 1) =>
       /\ cursorY' = Constrain(OneBased(FirstField(ParamBytes(last'.seq))) - 1,
                               0, TERMINAL_ROWS - 1)
       /\ cursorX' = Constrain(OneBased(SecondField(ParamBytes(last'.seq))) - 1,
                               0, TERMINAL_COLS - 1)]_vars

\* C9: ESC [ n A/B/C/D moves the cursor by n (1 when absent or 0) in the
\* named direction only, or stops it at an edge: down never gives a smaller
\* row, up never a larger one, forward never a smaller column, back never a
\* larger one; the buffer and totalLines do not change.
C9_CursorMovesInNamedDirection ==
  [][(CsiDone({ChA, ChB, ChC, ChD})
        /\ Separators(ParamBytes(last'.seq)) = {}) =>
       LET n == OneBased(ParamBytes(last'.seq))
       IN  /\ last'.arg = ChA =>
                /\ cursorX' = cursorX /\ cursorY' <= cursorY
                /\ cursorY' \in {cursorY - n, 0}
           /\ last'.arg = ChB =>
                /\ cursorX' = cursorX /\ cursorY' >= cursorY
                /\ cursorY' \in {cursorY + n, TERMINAL_ROWS - 1,
                                 TERMINAL_BUFFER_ROWS - 1}
           /\ last'.arg = ChC =>
                /\ cursorY' = cursorY /\ cursorX' >= cursorX
                /\ cursorX' \in {cursorX + n, TERMINAL_COLS - 1}
           /\ last'.arg = ChD =>
                /\ cursorY' = cursorY /\ cursorX' <= cursorX
                /\ cursorX' \in {cursorX - n, 0}
           /\ UNCHANGED <<screenBuffer, totalLines>>]_vars

\* C10: ESC [ m and ESC [ 0 m, from any colour state, set the foreground and
\* the background to the colours of terminalInit and change neither buffer,
\* cursor, totalLines nor scrollOffset.
C10_GraphicsReset ==
  [][(last'.op = "rx" /\ last'.ev = "escDone"
        /\ last'.seq \in {<<ChLBracket, Chm>>, <<ChLBracket, Ch0, Chm>>}) =>
       /\ fgColor' = "TFT_GREEN"
       /\ bgColor' = "TFT_BLACK"
       /\ UNCHANGED <<screenBuffer, cursorX, cursorY, totalLines,
                      scrollOffset>>]_vars

\* C10 witness: ESC [ 0 m has been processed with the foreground red.
C10_Witness ==
  /\ last.op = "rx" /\ last.ev = "escDone"
  /\ last.seq = <<ChLBracket, Ch0, Chm>>
  /\ last.fg = "TFT_RED"
  /\ fgColor = "TFT_GREEN" /\ bgColor = "TFT_BLACK"

\* The fields of a parameter string, split at every ';'.
RECURSIVE SplitFields(_)
SplitFields(s) ==
  IF Separators(s) = {} THEN <<s>>
  ELSE LET i == CHOOSE k \in Separators(s) : \A j \in Separators(s) : k <= j
       IN  <<SubSeq(s, 1, i - 1)>> \o SplitFields(SubSeq(s, i + 1, Len(s)))

\* A parameter list p1;...;pk with every field present, or no parameter at
\* all.
ListOfNumbers(s) ==
  \/ s = <<>>
  \/ \A i \in 1 .. Len(SplitFields(s)) :
       /\ SplitFields(s)[i] # <<>>
       /\ \A j \in 1 .. Len(SplitFields(s)[i]) : IsDigit(SplitFields(s)[i][j])

\* The colours <<fg, bg>> after the graphics parameters from field i on are
\* applied in order: 0 resets, 30..37 sets the foreground, the rest is
\* ignored.
RECURSIVE ApplyGraphics(_, _, _)
ApplyGraphics(colours, fields, i) ==
  IF i > Len(fields) THEN colours
  ELSE LET v == DecimalValue(fields[i])
       IN  ApplyGraphics(IF v = 0 THEN <<"TFT_GREEN", "TFT_BLACK">>
                         ELSE IF v >= 30 /\ v <= 37
                         THEN <<Palette(v), colours[2]>>
                         ELSE colours,
                         fields, i + 1)

\* C11: ESC [ p1;...;pk m applies every parameter in order: 0 resets both
\* colours to the defaults, 30..37 sets the foreground from the palette,
\* any other value is ignored, so that the foreground is that of the last
\* 30..37 parameter after the last 0.
C11_GraphicsParametersInOrder ==
  [][(CsiDone({Chm}) /\ ListOfNumbers(ParamBytes(last'.seq))) =>
       <<fgColor', bgColor'>>
         = ApplyGraphics(<<fgColor, bgColor>>,
                         SplitFields(ParamBytes(last'.seq)), 1)]_vars

\* The terminal state a control sequence may touch.
termVars == <<screenBuffer, cursorX, cursorY, totalLines, scrollOffset>>

\* The parameter bytes are one number or none.
OneNumberOrNone(s) == \A i \in 1 .. Len(s) : IsDigit(s[i])

C13_EraseLineFromCursor ==
  [][(last'.op = "rx" /\ last'.ev = "escDone"
        /\ last'.seq = <<ChLBracket, ChK>>) =>
       /\ screenBuffer' =
            [y \in Rows |->
               [x \in Cols |-> IF y = cursorY /\ x >= cursorX THEN SPACE
                               ELSE screenBuffer[y][x]]]
       /\ UNCHANGED <<cursorX, cursorY, totalLines, scrollOffset>>]_vars

\* C13 witness: ESC [ K has blanked text at the cursor and kept the text to
\* its left.
C13_Witness ==
  /\ last.op = "rx" /\ last.ev = "escDone"
  /\ last.seq = <<ChLBracket, ChK>>
  /\ cursorX > 0
  /\ last.row[cursorX] = Cha /\ screenBuffer[cursorY][cursorX] = SPACE
  /\ screenBuffer[cursorY][cursorX - 1] = Cha

\* The command letters processEscSequence knows.
KnownCommands == {ChH, Chf, ChJ, ChK, Chm, ChA, ChB, ChC, ChD}

\* C14: a terminated escape sequence whose first byte is not '[' or whose
\* terminator is not a known command letter changes neither buffer, cursor,
\* totalLines, scrollOffset nor colours and leaves the interpreter in
\* Ground; ESC and every collected byte print nothing.
C14_UnknownSequencesHaveNoEffect ==
  [][/\ (last'.op = "rx" /\ last'.ev = "escDone"
           /\ (last'.seq[1] # ChLBracket \/ last'.arg \notin KnownCommands)) =>
          /\ UNCHANGED termVars
          /\ UNCHANGED <<fgColor, bgColor>>
          /\ last'.put = <<>>
          /\ ~inEscSequence' /\ escBuffer' = <<>>
     /\ (last'.op = "rx" /\ last'.ev \in {"escStart", "escCollect"}) =>
          /\ UNCHANGED termVars
          /\ UNCHANGED <<fgColor, bgColor>>
          /\ last'.put = <<>>]_vars

\* C14 witness: ESC ( K has ended with the cursor on text that a K command
\* would have blanked.
C14_Witness ==
  /\ last.op = "rx" /\ last.ev = "escDone"
  /\ last.seq = <<ChLParen, ChK>>
  /\ cursorY \in Rows /\ cursorX \in Cols
  /\ screenBuffer[cursorY][cursorX] = Cha
  /\ ~inEscSequence

\* C17: a backspace with the cursor column > 0 lowers the column by one and
\* blanks that one cell; at column 0 it changes nothing; the cursor row,
\* every other cell, totalLines and scrollOffset never change.
C17_BackspaceStaysOnLine ==
  [][last'.put = <<BS>> =>
       /\ cursorX > 0 =>
            /\ cursorX' = cursorX - 1
            /\ screenBuffer' =
                 [screenBuffer EXCEPT ![cursorY][cursorX - 1] = SPACE]
       /\ cursorX = 0 => UNCHANGED <<cursorX, screenBuffer>>
       /\ UNCHANGED <<cursorY, totalLines, scrollOffset>>]_vars

\* C17 witness: a backspace has blanked a written cell.
C17_Witness ==
  /\ last.put = <<BS>>
  /\ cursorX \in Cols
  /\ last.row[cursorX] = Cha /\ screenBuffer[cursorY][cursorX] = SPACE

\* The step echoes a run of n printable codepoints from column 0.
RunFromColumnZero(n) ==
  /\ last'.op = "echoText"
  /\ cursorX = 0
  /\ last'.put = RunText(n)

\* C15: from column 0, writing exactly TERMINAL_COLS printable codepoints
\* leaves the cursor at column 0 of the next row of the buffer (one row on,
\* the row after the last being the first), the codepoints filling the row
\* it left.
C15_FullRowWrapsOnce ==
  [][RunFromColumnZero(TERMINAL_COLS) =>
       /\ cursorX' = 0
       /\ cursorY' = CRem(cursorY + 1, TERMINAL_BUFFER_ROWS)
       /\ screenBuffer'[cursorY] = [x \in Cols |-> last'.put[x + 1]]]_vars

ClearedTerm ==
  [buf |-> BlankBuffer, cx |-> 0, cy |-> 0, so |-> 0, tl |-> 0]

\* C18: the codepoints handed to putChar while a byte string without ESC and
\* NUL arrives one byte per terminalUpdate call, the incoming decoder idle
\* at the start, are those handed to putChar when terminalLocalEchoText
\* decodes the same string in one call.
C18_IncrementalEqualsWhole ==
  stream.put = EchoText(ClearedTerm, <<>>, Utf8Init, stream.bytes, 1,
                        keyboardVisible).put

\* C18 witness: a two-byte character, then a lead byte dropped because an
\* ASCII byte followed it.
C18_Witness ==
  /\ stream.bytes = <<208, 144, 208, 65>>
  /\ stream.put = <<1040>>

\* The edit buffer: the bytes of inputBuffer before inputBufferPos.
EditBuffer == [i \in 1 .. inputBufferPos |-> inputBuffer[i - 1]]

\* C19: after n non-empty pushes the history holds the min(n, MAX_HISTORY)
\* commands pushed last, the last one at index 0 and the others in reverse
\* push order, and historyCount is min(n, MAX_HISTORY).
C19_HistoryKeepsMostRecent ==
  LET n == Len(nav.pushed)
      m == Min(n, MAX_HISTORY)
  IN  /\ historyCount = m
      /\ historyCount <= MAX_HISTORY
      /\ \A i \in 0 .. m - 1 : commandHistory[i] = nav.pushed[n - i]
      /\ \A i \in m .. MAX_HISTORY - 1 : commandHistory[i] = <<>>

\* C19 witness: one command more than the history holds has been pushed,
\* and the first one differs from those kept.
C19_Witness ==
  /\ Len(nav.pushed) = MAX_HISTORY + 1
  /\ \A i \in 0 .. MAX_HISTORY - 1 : commandHistory[i] # nav.pushed[1]
  /\ last.op = "enter"

\* C20: with k stored commands, after u >= 1 Up presses from the Editing
\* state followed by d < min(u, k) Down presses the edit buffer is
\* h[min(u, k) - 1 - d].
C20_UpThenDownSelectsEntry ==
  (nav.ups >= 1 /\ nav.downs < Min(nav.ups, historyCount)) =>
    EditBuffer = commandHistory[Min(nav.ups, historyCount) - 1 - nav.downs]

\* C20 witness: three distinct commands, Up three times and Down once.
C20_Witness ==
  /\ historyCount = 3
  /\ nav.ups = 3 /\ nav.downs = 1
  /\ commandHistory[0] # commandHistory[1]
  /\ commandHistory[1] # commandHistory[2]
  /\ commandHistory[0] # commandHistory[2]
  /\ EditBuffer = commandHistory[1]

\* The statics of display.h that hold the input and the history.
kbdState == <<commandHistory, historyCount, inputBuffer, inputBufferPos,
              currentHistoryIndex, savedNewCommand>>

\* C21: from the Editing state with edit E and a non-empty history, the
\* first Up press saves E and starts browsing at index 0; after u >= 1 Up
\* presses the min(u, historyCount)-th Down press leaves the input buffer
\* equal to E and the browse index -1; a Down press in the Editing state
\* changes neither the input, the history nor the terminal.
C21_HistoryRoundTrip ==
  [][/\ (last'.op = "up" /\ currentHistoryIndex = -1 /\ historyCount >= 1) =>
          (savedNewCommand' = EditBuffer /\ currentHistoryIndex' = 0)
     /\ (/\ last'.op = "down"
         /\ historyCount >= 1
         /\ nav.ups >= 1
         /\ nav.downs + 1 = Min(nav.ups, historyCount)) =>
          (EditBuffer' = nav.edit /\ currentHistoryIndex' = -1)
     /\ (last'.op = "down" /\ currentHistoryIndex = -1) =>
          (UNCHANGED kbdState /\ UNCHANGED termVars)]_vars

C21_Witness ==
  /\ last.op = "down"
  /\ last.arg >= 2
  /\ currentHistoryIndex = -1
  /\ EditBuffer # <<>>
  /\ EditBuffer # commandHistory[0]

\* C22: in every reachable state the cursor's absolute line number L, as
\* terminalRedraw computes it, names a retained line: it is at least
\* max(0, totalLines - TERMINAL_BUFFER_ROWS), less than totalLines, and
\* L % TERMINAL_BUFFER_ROWS is the cursor's slot.
C22_CursorLineIsRetained ==
  LET L == CursorLineNumber(totalLines, cursorY)
  IN  /\ Max(0, totalLines - TERMINAL_BUFFER_ROWS) <= L
      /\ L < totalLines
      /\ L >= 0 => CRem(L, TERMINAL_BUFFER_ROWS) = cursorY

\* The rows terminalRedraw reads in the current state.
Reads == RedrawReads(totalLines, cursorY, scrollOffset, keyboardVisible)

\* The first line and one past the last line of the visible range.
RangeFirst ==
  Max(0, totalLines - VisibleRows(keyboardVisible) - scrollOffset)

RangeEnd == Min(RangeFirst + VisibleRows(keyboardVisible), totalLines)

\* C23 as stated: terminalRedraw reads buffer content only for absolute
\* lines i with first <= i < min(first + visibleRows, totalLines) and
\* i >= totalLines - TERMINAL_BUFFER_ROWS, each from slot
\* i % TERMINAL_BUFFER_ROWS.
C23_ReadsOnlyVisibleRange ==
  \A r \in Reads :
    /\ RangeFirst <= r.line /\ r.line < RangeEnd
    /\ r.line >= totalLines - TERMINAL_BUFFER_ROWS
    /\ r.slot = CRem(r.line, TERMINAL_BUFFER_ROWS)

\* C23: terminalRedraw reads buffer content only for absolute lines i with
\* first <= i < min(first + visibleRows, totalLines) and, with the keyboard
\* shown, for the cursor's line when that is line first + visibleRows and
\* exists; every line read is at least totalLines - TERMINAL_BUFFER_ROWS and
\* is read from slot i % TERMINAL_BUFFER_ROWS.
C23_ReadsVisibleRangeAndCursorRow ==
  \A r \in Reads :
    /\ \/ RangeFirst <= r.line /\ r.line < RangeEnd
       \/ /\ keyboardVisible
          /\ r.line = RangeFirst + VisibleRows(keyboardVisible)
          /\ r.line = CursorLineNumber(totalLines, cursorY)
          /\ r.line < totalLines
    /\ r.line >= totalLines - TERMINAL_BUFFER_ROWS
    /\ r.slot = CRem(r.line, TERMINAL_BUFFER_ROWS)

C23_Witness ==
  /\ totalLines > TERMINAL_BUFFER_ROWS
  /\ keyboardVisible
  /\ \E r \in Reads : r.line = RangeFirst + VisibleRows(keyboardVisible)

\* The step is the end of an "ESC [ ... J" sequence that names mode 2.
ClearStep ==
  /\ last'.op = "rx"
  /\ last'.ev = "escDone"
  /\ last'.seq[Len(last'.seq)] = ChJ
  /\ \E i \in 1 .. Len(last'.seq) : last'.seq[i] = Ch2

\* C24: totalLines never decreases, except that a step which ends an
\* "ESC [ 2 J" sequence (terminalClear) sets it to 0; cursor movements,
\* backspaces, scrolling and keyboard toggles do not lower it.
C24_TotalLinesMonotonic ==
  [][\/ totalLines' >= totalLines
     \/ totalLines' = 0 /\ ClearStep]_vars

C24_Witness ==
  /\ totalLines > TERMINAL_BUFFER_ROWS
  /\ last.ev = "escDone"
  /\ last.seq = <<ChLBracket, Ch2, ChA>>
  /\ keyboardVisible

\* The files with the MAX_SESSIONS highest session numbers.
MostRecent(files) ==
  {f \in files :
     Cardinality({g \in files : ToInt(g) > ToInt(f)}) < MAX_SESSIONS}

\* C25: every sdStopRecording that ends a recording leaves at most
\* MAX_SESSIONS session files in /LOGS, and they are the files with the
\* highest session numbers among those present when it was called.
C25_StopKeepsMostRecentSessions ==
  [][(last'.op = "sdStop" /\ isRecording) =>
       /\ Cardinality(logFiles') <= MAX_SESSIONS
       /\ logFiles' = MostRecent(logFiles)]_vars

\* C26: the encoder makes 1 to 4 bytes of every codepoint below 0x110000;
\* handed one at a time to a freshly initialised decoder, every byte but
\* the last makes utf8Decode return false and the last makes it return
\* true with utf8GetCodepoint equal to the codepoint.
C26_EncodeDecodeRoundTrip ==
  /\ Len(encoded.bytes) \in 1 .. 4
  /\ (encoded.fed >= 1 /\ encoded.fed < Len(encoded.bytes)) =>
       last.ev # "decoded"
  /\ encoded.fed = Len(encoded.bytes) =>
       (last.ev = "decoded" /\ utf8Decoder.codepoint = encoded.cp)

C26_Witness ==
  /\ encoded.cp = 128512
  /\ encoded.fed = 4
  /\ utf8Decoder.codepoint = 128512

\* The step hands a line feed to putChar, or a printable codepoint with the
\* cursor at the last column.
NewlineOrWrapStep ==
  /\ Len(last'.put) = 1
  /\ \/ last'.put[1] = LF
     \/ last'.put[1] >= 32 /\ cursorX = TERMINAL_COLS - 1

\* The rows in which the step turns a cell holding text into a blank, the
\* cell under the cursor apart.
RowsDestroyed ==
  {y \in Rows : \E x \in Cols :
     /\ <<y, x>> # <<cursorY, cursorX>>
     /\ screenBuffer[y][x] # SPACE
     /\ screenBuffer'[y][x] = SPACE}

\* C27: a newline or wrap blanks no cell holding text while fewer than
\* TERMINAL_BUFFER_ROWS lines exist, and at capacity the only row it blanks
\* is the slot of the oldest retained line, absolute line
\* totalLines - TERMINAL_BUFFER_ROWS.
C27_NewlineDestroysOnlyOldestLine ==
  [][NewlineOrWrapStep =>
       \A y \in RowsDestroyed :
         /\ totalLines >= TERMINAL_BUFFER_ROWS
         /\ y = CRem(totalLines - TERMINAL_BUFFER_ROWS,
                     TERMINAL_BUFFER_ROWS)]_vars

C29_EmptyFieldKeepsPosition ==
  (/\ last.op = "rx"
   /\ last.ev = "escDone"
   /\ Len(last.seq) = 4
   /\ last.seq[1] = ChLBracket
   /\ last.seq[2] = ChSemi
   /\ IsDigit(last.seq[3]) /\ last.seq[3] # Ch0
   /\ last.seq[4] = ChH) =>
    /\ cursorY = 0
    /\ cursorX = Min(last.seq[3] - Ch0 - 1, TERMINAL_COLS - 1)

\* C30: when toggleKeyboard has just shown the keyboard, the scrollOffset
\* terminalScrollForKeyboard computed puts the cursor's absolute line in
\* the range terminalRedraw displays with the keyboard up:
\* first <= cursor line <= first + visibleRows.
C30_CursorShownWithKeyboard ==
  (last.op = "toggle" /\ keyboardVisible) =>
    LET rows == VisibleRows(TRUE)
        first == FirstLineToShow(totalLines, rows, scrollOffset)
        L == CursorLineNumber(totalLines, cursorY)
    IN  first <= L /\ L <= first + rows

\* The first line terminalRedraw shows with the keyboard up, and the
\* cursor's absolute line, after the step.
FirstShownAfter ==
  Max(0, totalLines' - KeyboardShownRows - scrollOffset')

CursorLineAfter == CursorLineNumber(totalLines', cursorY')

BufferBeforeAdvance ==
  IF last'.put[1] = LF
  THEN screenBuffer
  ELSE SetCell(screenBuffer, cursorY, cursorX, last'.put[1])

\* C32: a newline or wrap changes at most one buffer row, the row the
\* cursor moves into, which it leaves blank; every other row keeps its
\* content in its slot.
C32_OnlyNewRowBlanked ==
  [][NewlineOrWrapStep =>
       /\ cursorY' \in Rows
       /\ screenBuffer'[cursorY'] = BlankRow
       /\ \A y \in Rows \ {cursorY'} :
            screenBuffer'[y] = BufferBeforeAdvance[y]]_vars

C32_Witness ==
  /\ last.op = "echo"
  /\ last.put = <<Cha>>
  /\ cursorX = 0
  /\ totalLines > TERMINAL_BUFFER_ROWS
  /\ screenBuffer[cursorY] = BlankRow
  /\ \E y \in Rows : screenBuffer[y] = [x \in Cols |-> Cha]

\* C33: once ESC has started a sequence, the bytes collected since then
\* (escIndex) never exceed ESC_BUFFER_SIZE - 1 = 31; each further byte
\* either ends the sequence or adds one to that count, a letter among the
\* first 31 ends it, and the byte received with 31 collected (the 32nd)
\* ends it whatever it is.  So the interpreter is back in Ground after at
\* most 32 further bytes.
C33_BoundedReturnToGround ==
  [][(last'.op = "rx") =>
       IF inEscSequence
       THEN /\ Len(escBuffer) <= ESC_BUFFER_SIZE - 1
            /\ IF Len(escBuffer) = ESC_BUFFER_SIZE - 1 \/ IsLetter(last'.arg)
               THEN ~inEscSequence'
               ELSE inEscSequence' /\ Len(escBuffer') = Len(escBuffer) + 1
       ELSE inEscSequence' => Len(escBuffer') = 0]_vars

C33_Witness ==
  /\ last.op = "rx" /\ last.ev = "escOverflow" /\ last.arg = Ch9
  /\ ~inEscSequence
  /\ Len(escBuffer) = 0

\* The bytes of a stream that terminalUpdate hands to the incoming decoder:
\* what is left when ESC and the bytes collected after it, up to the
\* terminating letter or the overflowing byte, are taken out.
RECURSIVE BytesForDecoder(_, _, _, _)
BytesForDecoder(bytes, i, collecting, collected) ==
  IF i > Len(bytes) THEN <<>>
  ELSE IF collecting
  THEN IF collected < ESC_BUFFER_SIZE - 1 /\ ~IsLetter(bytes[i])
       THEN BytesForDecoder(bytes, i + 1, TRUE, collected + 1)
       ELSE BytesForDecoder(bytes, i + 1, FALSE, 0)
  ELSE IF bytes[i] = ESC
  THEN BytesForDecoder(bytes, i + 1, TRUE, 0)
  ELSE <<bytes[i]>> \o BytesForDecoder(bytes, i + 1, FALSE, 0)

\* C34: a byte taken by the escape interpreter (ESC, the bytes collected
\* after it, the terminator) leaves the incoming decoder's state as it was,
\* and the codepoints handed to putChar are those of the stream with the
\* escape sequences taken out: a character whose bytes an escape sequence
\* separates is completed by the continuation bytes that follow it.
C34_EscapeBytesBypassDecoder ==
  [][(last'.op = "rx") =>
       /\ (inEscSequence \/ last'.arg = ESC) => utf8Decoder' = utf8Decoder
       /\ stream'.put =
            EchoText(ClearedTerm, <<>>, Utf8Init,
                     BytesForDecoder(stream'.bytes, 1, FALSE, 0), 1,
                     keyboardVisible).put]_vars

C34_Witness ==
  /\ stream.bytes = <<208, ESC, ChLBracket, ChA, 144>>
  /\ stream.put = <<1040>>
  /\ last.ev = "decoded"

\* The state of terminalUpdate's parser: the escape collector (escIndex is
\* the length of escBuffer) and the incoming decoder.
parserVars == <<inEscSequence, escBuffer, utf8Decoder>>

LocalEchoStep == last'.op \in {"echo", "echoText", "sendText"}

\* C35: terminalSendText, terminalLocalEcho and terminalLocalEchoText,
\* called between any two terminalUpdate calls, leave inEscSequence,
\* escBuffer, escIndex and the incoming decoder as they were; in particular
\* an ESC given to local echo does not start a sequence.
C35_LocalEchoKeepsParser ==
  [][LocalEchoStep => UNCHANGED parserVars]_vars

\* C35 witness: ESC has just been echoed while an incoming character was
\* half received, and the parser is still in Ground with the lead pending.
C35_Witness ==
  /\ last.op \in {"echoText", "sendText"}
  /\ last.put = <<ESC, Cha>>
  /\ ~inEscSequence
  /\ utf8Decoder.bytesNeeded = 1
  /\ utf8Decoder.codepoint = 16

\* A step that hands putChar one codepoint which does not advance the line:
\* a carriage return, a backspace, or a printable codepoint short of the
\* last column.
StaysOnLineStep ==
  /\ Len(last'.put) = 1
  /\ \/ last'.put[1] \in {CR, BS}
     \/ last'.put[1] >= 32 /\ cursorX < TERMINAL_COLS - 1

\* C36: hiding the keyboard sets scrollOffset to 0; while the keyboard is
\* hidden, every newline or wrap sets scrollOffset to 0, a printable
\* codepoint that does not wrap, a carriage return and a backspace leave it
\* unchanged, and only terminalScroll gives it a new non-zero value.
C36_OffsetWhileHidden ==
  [][/\ (keyboardVisible /\ ~keyboardVisible') => scrollOffset' = 0
     /\ (~keyboardVisible /\ ~keyboardVisible') =>
          /\ NewlineOrWrapStep => scrollOffset' = 0
          /\ StaysOnLineStep => scrollOffset' = scrollOffset
          /\ (scrollOffset' # 0 /\ scrollOffset' # scrollOffset) =>
               last'.op = "scroll"]_vars

\* C36 witness: with the keyboard hidden and the view scrolled back, a
\* printable codepoint has been written short of the last column.
C36_Witness ==
  /\ ~keyboardVisible
  /\ last.op = "rx"
  /\ last.put = <<SPACE>>
  /\ cursorX = 1
  /\ scrollOffset > 0

\* C37: the browse index stays between -1 and historyCount - 1, and
\* historyUp with an empty history or at the oldest entry changes neither
\* the browse index nor the saved edit nor the input buffer.
C37_BrowseIndexInRange ==
  [][/\ -1 <= currentHistoryIndex /\ currentHistoryIndex <= historyCount - 1
     /\ -1 <= currentHistoryIndex' /\ currentHistoryIndex' <= historyCount' - 1
     /\ (last'.op = "up" /\ currentHistoryIndex = historyCount - 1) =>
          UNCHANGED <<currentHistoryIndex, savedNewCommand, inputBuffer,
                      inputBufferPos>>]_vars

\* C37 witness: Up pressed at the oldest of several entries.
C37_Witness ==
  /\ last.op = "up"
  /\ last.put = <<>>
  /\ historyCount >= 2
  /\ currentHistoryIndex = historyCount - 1

\* The input buffer's content as ENTER finds it.
InputText == [i \in 1 .. inputBufferPos |-> inputBuffer[i - 1]]

\* C38: after ENTER the browse index is -1, the input buffer is empty and
\* the saved edit is cleared; a non-empty input has become history entry 0
\* and an empty one has pushed nothing.
C38_EnterEndsBrowsing ==
  [][(last'.op = "enter") =>
       /\ currentHistoryIndex' = -1
       /\ inputBufferPos' = 0
       /\ savedNewCommand' = <<>>
       /\ IF inputBufferPos > 0
          THEN historyCount' >= 1 /\ commandHistory'[0] = InputText
          ELSE UNCHANGED <<commandHistory, historyCount>>]_vars

StatusAgrees == isRecording <=> currentStatus = "SD_RECORDING"

\* C39: sdStartRecording returns false and changes neither isRecording nor
\* the status when the status is SD_NOT_PRESENT or SD_ERROR; when the file
\* cannot be opened it returns false, sets SD_ERROR and leaves isRecording
\* false; when already recording it returns true and opens no session; and
\* isRecording is true exactly when the status is SD_RECORDING.
C39_StartRecordingErrors ==
  [][/\ StatusAgrees
     /\ StatusAgrees'
     /\ (last'.op = "sdStart") =>
          IF currentStatus \in {"SD_NOT_PRESENT", "SD_ERROR"}
          THEN last'.ev = "false" /\ UNCHANGED <<isRecording, currentStatus>>
          ELSE IF isRecording
          THEN /\ last'.ev = "true"
               /\ UNCHANGED <<isRecording, currentStatus, logFiles,
                              sessionNumber>>
          ELSE IF last'.arg = 0
          THEN /\ last'.ev = "false"
               /\ currentStatus' = "SD_ERROR"
               /\ ~isRecording'
          ELSE last'.ev = "true" /\ isRecording']_vars

\* C39 witness: a start refused because an earlier open failed.
C39_Witness ==
  /\ last.op = "sdStart"
  /\ last.arg = 1
  /\ last.ev = "false"
  /\ currentStatus = "SD_ERROR"
  /\ ~isRecording
  /\ sessionNumber > 0

=============================================================================
